---- MODULE Spec2Model ----
(***************************************************************************)
(* Event lifecycle and delivery engine of the Triggers API                 *)
(* (src/src/handlers/events.py over src/src/storage/dynamodb.py,           *)
(* src/src/sqs_queue/sqs.py and src/src/delivery/push.py).                  *)
(*                                                                         *)
(* The store is the DynamoDB events table (event_id -> item), the queue is *)
(* the SQS retry queue (an unordered bag of messages).  Every HTTP handler *)
(* is one action; its inputs (request fields, caller identity, the outcome *)
(* of the webhook POST and of the SQS send) are drawn with \E.  The        *)
(* variable last records the call the latest step made and what the        *)
(* handler returned, so that properties can speak about a call's effect.   *)
(***************************************************************************)
EXTENDS Integers, Sequences, FiniteSets, Bags, TLC

VARIABLES store, queue, nextId, clock, last, inflight

vars == <<store, queue, nextId, clock, last, inflight>>

(***************************************************************************)
(* Bounds of the model                                                     *)
(***************************************************************************)
\* events created in one run of Spec (every handler, one event followed up
\* to the replay ceiling) and of SpecIngest / SpecRace (the ingestion paths)
MaxEvents == 1
MaxIngest == 2
MaxTime == 2
MaxQueue == 1
MaxAttempts == 2
MaxReplays == 1
MaxInflight == 2
\* the batch limit of the runs that exceed it (the code's limit is
\* MAX_BATCH_SIZE; the request models, list_events and the handlers all
\* take the same number)
BatchCap == 1
\* calls of the delivery function that one run of retry_delivery could make
\* (one more than the code's stop)
MaxCalls == 6

(***************************************************************************)
(* Value domains                                                           *)
(***************************************************************************)
None == "None"
NoId == 0
NoTime == 0
NoMeta == <<>>

Users == {"u1", "u2"}
Keys == {"k1"}
EventTypes == {"order.created"}
\* an event type CreateEventRequest accepts and Event refuses
BadEventTypes == {"Order-Created"}
BaseMeta == [k \in {"source"} |-> "web"]
Metas == {NoMeta, BaseMeta}
Ids == 1..MaxIngest
Statuses == {"pending", "delivered", "failed", "replayed"}
Reasons == {"manual"}
Workflows == {None, "wf1"}

MaybeUsers == Users \cup {None}

\* the payloads of new events (updates write the other payload)
NewPayloads == {"p1"}

\* <<authenticated user, user_id of the request body>> of a create request
Identities ==
    {<<None, None>>, <<None, "u1">>, <<"u1", None>>, <<"u1", "u2">>,
     <<"u2", None>>}
MaybeKeys == Keys \cup {None}

\* delivery/push.py:96-130: deliver_event returns True or False
DeliveryOutcomes == {"ok", "fail"}
SendOutcomes == {"ok", "raise"}

\* handlers/events.py:2492 and :2335
MAX_REPLAY_ATTEMPTS == 10

\* handlers/events.py:441, :829, :872, :1242, :1316, :2200, :2274 and the
\* max_length of the request models
MAX_BATCH_SIZE == 100

\* handlers/events.py list_events: the default limit and the largest one
DEFAULT_LIMIT == 50
MAX_LIST_LIMIT == 100

\* delivery/retry.py line 26: stop_after_attempt(5)
RETRY_ATTEMPTS == 5

(***************************************************************************)
(* Python truthiness of an optional string / dict                          *)
(***************************************************************************)
Truthy(v) == v # None
MetaTruthy(m) == DOMAIN m # {}

(***************************************************************************)
(* models/event.py: Event                                                  *)
(***************************************************************************)
Event(id, typ, payload, meta, status, created, delivered, attempts, uid, key) ==
    [event_id |-> id, event_type |-> typ, payload |-> payload, metadata |-> meta,
     status |-> status, created_at |-> created, delivered_at |-> delivered,
     delivery_attempts |-> attempts, user_id |-> uid, idempotency_key |-> key]

(***************************************************************************)
(* storage/dynamodb.py                                                     *)
(***************************************************************************)
\* variant of put_event: a conditional write that refuses an event whose
\* (user_id, idempotency_key) is already stored under another id
put_event_unless_duplicate(st, e) ==
    IF \E i \in DOMAIN st :
          /\ i # e.event_id
          /\ e.user_id # None /\ e.idempotency_key # None
          /\ st[i].user_id = e.user_id
          /\ st[i].idempotency_key = e.idempotency_key
    THEN st
    ELSE [i \in DOMAIN st \cup {e.event_id} |-> IF i = e.event_id THEN e ELSE st[i]]

\* put_event / update_event: put_item replaces the whole item under event_id
put_event(st, e) ==
    [i \in DOMAIN st \cup {e.event_id} |-> IF i = e.event_id THEN e ELSE st[i]]

update_event(st, e) == put_event(st, e)

\* get_event: the item or nothing
get_event(st, id) == IF id \in DOMAIN st THEN {st[id]} ELSE {}

\* delete_event: delete_item by key
delete_event(st, id) == [i \in DOMAIN st \ {id} |-> st[i]]

\* variant of get_event_by_idempotency_key: a lookup that finds nothing
get_event_by_idempotency_key_miss(st, uid, key) == {}

\* get_event_by_idempotency_key: the items the IdempotencyIndex query may
\* return (Limit=1 picks one of them); nothing when user_id is None
get_event_by_idempotency_key(st, uid, key) ==
    IF uid = None THEN {}
    ELSE {st[i] : i \in {j \in DOMAIN st :
                           st[j].user_id = uid /\ st[j].idempotency_key = key}}

(***************************************************************************)
(* sqs_queue/sqs.py: send_message puts one message on the queue.  The body *)
(* is the JSON dump of the event; the queue keeps of it what a consumer    *)
(* reads back, the event id and the payload copy.  The whole dump handed   *)
(* to send_message is recorded in last.body.                               *)
(***************************************************************************)
Message(e) == [event_id |-> e.event_id, payload |-> e.payload]

send_message(q, e) == q (+) SetToBag({Message(e)})

(***************************************************************************)
(* Record of the call the latest step made                                 *)
(***************************************************************************)
\* what the handler did: the events POSTed to the webhook (delivers), those
\* of them the webhook accepted (oks), the events handed to send_message
\* (sends), how many of these sends succeeded (sent), the last event dump
\* handed to send_message (body), and the number of store writes (writes)
Effects(delivers, sends, sent, body, writes) ==
    [delivers |-> delivers, oks |-> <<>>, sends |-> sends, sent |-> sent,
     body |-> body, writes |-> writes]

\* the webhook accepted the one event delivered
Accepted(fx) == [fx EXCEPT !.oks = fx.delivers]

Rep(id, n) == [i \in 1..n |-> id]

\* the effects of a handler on the one event id
Fx(id, delivers, sends, sent, body, writes) ==
    Effects(Rep(id, delivers), Rep(id, sends), sent, body, writes)

NoEffects == Effects(<<>>, <<>>, 0, <<>>, 0)

\* effects in sequence
Then(f, g) ==
    [Effects(f.delivers \o g.delivers, f.sends \o g.sends, f.sent + g.sent,
             IF g.sends # <<>> THEN g.body ELSE f.body, f.writes + g.writes)
       EXCEPT !.oks = f.oks \o g.oks]

\* models/response.py: BatchOperationSummary
Summary(total, successful, idempotent, failed) ==
    [total |-> total, successful |-> successful, idempotent |-> idempotent,
     failed |-> failed]

\* a response that carries the event e
Call(op, id, caller, code, e, fx, msg) ==
    [op |-> op, id |-> id, caller |-> caller, code |-> code, status |-> e.status,
     delivered_at |-> e.delivered_at, attempts |-> e.delivery_attempts,
     delivers |-> fx.delivers, oks |-> fx.oks, sends |-> fx.sends,
     sent |-> fx.sent,
     body |-> fx.body, writes |-> fx.writes, msg |-> msg, results |-> <<>>,
     summary |-> Summary(0, 0, 0, 0), request |-> <<>>, items |-> <<>>,
     filter |-> None, failures |-> <<>>]

\* an error response (HTTPException), or one without a body, carries no event
PlainCall(op, id, caller, code, fx) ==
    [op |-> op, id |-> id, caller |-> caller, code |-> code, status |-> None,
     delivered_at |-> NoTime, attempts |-> 0,
     delivers |-> fx.delivers, oks |-> fx.oks, sends |-> fx.sends,
     sent |-> fx.sent,
     body |-> fx.body, writes |-> fx.writes, msg |-> None, results |-> <<>>,
     summary |-> Summary(0, 0, 0, 0), request |-> <<>>, items |-> <<>>,
     filter |-> None, failures |-> <<>>]

\* a batch response: the per-item results and the summary.  The record of
\* a batch call also keeps the request: the event ids listed (request) or
\* the events to create (items), and the status filter of the query string
\* (filter).
BatchCall(op, caller, code, fx, results, summary) ==
    [PlainCall(op, NoId, caller, code, fx) EXCEPT !.results = results,
                                                   !.summary = summary]

\* one per-item result of a batch response (models/response.py)
Result(index, id, success, code, status, msg) ==
    [index |-> index, event_id |-> id, success |-> success, code |-> code,
     status |-> status, msg |-> msg]

NoCall == PlainCall("none", NoId, None, 0, NoEffects)

\* has_filters (lines 806, 1224, 2182): the mode of the call
FilterMode(status) == IF status = None THEN "list" ELSE "filter"

\* a request body FastAPI refuses (max_length of the request models)
Unprocessable(op, caller, request, items) ==
    [PlainCall(op, NoId, caller, 422, NoEffects)
       EXCEPT !.request = request, !.items = items]

Init ==
    /\ store = <<>>
    /\ queue = EmptyBag
    /\ nextId = 1
    /\ clock = 1
    /\ last = NoCall
    /\ inflight = {}

\* datetime.now(): time passes between calls
Tick ==
    /\ clock < MaxTime
    /\ clock' = clock + 1
    /\ last' = NoCall
    /\ UNCHANGED <<store, queue, nextId, inflight>>

\* variant of NotOwner: no ownership check
NotOwnerOff(caller, e) == FALSE

\* ownership check shared by update, delete and the batch handlers
\* (events.py:1851, :2019, :909, :1371, :2319)
NotOwner(caller, e) == caller # None /\ e.user_id # caller

(***************************************************************************)
(* handlers/events.py: create_event                                        *)
(***************************************************************************)
\* variant of PushOrQueue: a successful push that does not count the attempt
PushOrQueueUncounted(e0, q, d, s1, s2, now) ==
    CASE d = "ok" ->
           [event |-> [e0 EXCEPT !.status = "delivered", !.delivered_at = now],
            persist |-> TRUE, queue |-> q,
            fx |-> Accepted(Fx(e0.event_id, 1, 0, 0, <<>>, 1))]
      [] d = "fail" ->
           [event |-> e0, persist |-> FALSE,
            queue |-> IF s1 = "ok" THEN send_message(q, e0) ELSE q,
            fx |-> Fx(e0.event_id, 1, 1, IF s1 = "ok" THEN 1 ELSE 0, e0, 0)]

\* variant of PushOrQueue: a failed push marks the event failed
\* (Event.mark_failed) before it is queued
PushOrQueueMarkFailed(e0, q, d, s1, s2, now) ==
    LET r == PushOrQueueUncounted(e0, q, d, s1, s2, now)
    IN  IF d = "ok" THEN r
        ELSE [r EXCEPT !.event = [e0 EXCEPT !.status = "failed",
                                            !.delivery_attempts = 1],
                       !.persist = TRUE]

\* lines 256-305: the push-or-queue step on the stored pending event e0.
\* d is the outcome of deliver_event; s1, s2 are the outcomes of the first
\* and of the second send_message call the step may make.  Gives the event
\* as the handler holds it afterwards, whether it is written back, the queue
\* and the effects.
PushOrQueue(e0, q, d, s1, s2, now) ==
    CASE d = "ok" ->
           [event |-> [e0 EXCEPT !.status = "delivered", !.delivered_at = now,
                                 !.delivery_attempts = 1],
            persist |-> TRUE, queue |-> q,
            fx |-> Accepted(Fx(e0.event_id, 1, 0, 0, <<>>, 1))]
      [] d = "fail" /\ s1 = "ok" ->
           [event |-> e0, persist |-> FALSE, queue |-> send_message(q, e0),
            fx |-> Fx(e0.event_id, 1, 1, 1, e0, 0)]
      [] d = "fail" /\ s1 = "raise" ->
           \* the failed send lands in the except branch, which sends again
           [event |-> e0, persist |-> FALSE,
            queue |-> IF s2 = "ok" THEN send_message(q, e0) ELSE q,
            fx |-> Fx(e0.event_id, 1, 2, IF s2 = "ok" THEN 1 ELSE 0, e0, 0)]

\* the outcomes of the sends that the step reads, given d
SendChoices(d) ==
    CASE d = "ok" -> {<<"ok", "ok">>}
      [] d = "fail" -> {<<"ok", "ok">>, <<"raise", "ok">>, <<"raise", "raise">>}

\* lines 329, 653: message=f"Event {event.status}"
StatusMessage(e) == "Event " \o e.status

\* lines 223-330: create_event after the idempotency check
CreateWrite(uid, key, typ, payload, meta, caller, d, s1, s2) ==
    LET id == nextId
        e0 == Event(id, typ, payload, meta, "pending", clock, NoTime, 0, uid, key)
        st1 == put_event(store, e0)
        r == PushOrQueue(e0, queue, d, s1, s2, clock)
    IN  /\ nextId' = nextId + 1
        /\ store' = IF r.persist THEN update_event(st1, r.event) ELSE st1
        /\ queue' = r.queue
        /\ BagCardinality(queue') <= MaxQueue
        /\ last' = Call("create", id, caller, 201, r.event,
                        [r.fx EXCEPT !.writes = @ + 1],
                        StatusMessage(r.event))

\* lines 184-193: the resolved owner and the idempotency lookup
CreateOwner(authUser, bodyUser) == IF Truthy(authUser) THEN authUser ELSE bodyUser

CreateExisting(st, uid, key) ==
    IF Truthy(key) THEN get_event_by_idempotency_key(st, uid, key) ELSE {}

\* lines 195-221: the idempotent response
CreateDuplicate(existing, caller) ==
    /\ last' = Call("create", existing.event_id, caller, 200, existing, NoEffects,
                    "Event already exists with this user_id and idempotency key")
    /\ UNCHANGED <<store, queue, nextId>>

\* create_event as one call; cap bounds the events created in a run, keys
\* and metas are the idempotency keys and the metadata of the requests
Create(cap, keys, metas) ==
    \E who \in Identities, key \in keys, typ \in EventTypes,
       payload \in NewPayloads, meta \in metas :
        LET authUser == who[1]
            bodyUser == who[2]
            uid == CreateOwner(authUser, bodyUser)
            found == CreateExisting(store, uid, key)
        IN  /\ inflight = {}
            /\ IF found # {}
               THEN \E existing \in found : CreateDuplicate(existing, authUser)
               ELSE /\ nextId <= cap
                    /\ \E d \in DeliveryOutcomes : \E s \in SendChoices(d) :
                         CreateWrite(uid, key, typ, payload, meta, authUser,
                                     d, s[1], s[2])
            /\ UNCHANGED <<clock, inflight>>

\* create_event as two steps, for requests that overlap: the idempotency
\* lookup (lines 186-221), after which other requests may run, and the rest
\* of the handler (lines 223-330).  inflight holds the requests that passed
\* the lookup, each under its request number n.
CreateCheck(cap, keys, metas) ==
    \E who \in Identities, key \in keys, typ \in EventTypes,
       payload \in NewPayloads, meta \in metas :
        LET authUser == who[1]
            uid == CreateOwner(authUser, who[2])
            found == CreateExisting(store, uid, key)
        IN  /\ UNCHANGED clock
            /\ IF found # {}
               THEN /\ \E existing \in found : CreateDuplicate(existing, authUser)
                    /\ UNCHANGED inflight
               ELSE /\ Cardinality(inflight) < MaxInflight
                    /\ nextId + Cardinality(inflight) <= cap
                    /\ \E n \in 1..MaxInflight :
                         /\ \A r \in inflight : r.n < n
                         /\ inflight' = inflight \cup
                               {[n |-> n, uid |-> uid, key |-> key, typ |-> typ,
                                 payload |-> payload, meta |-> meta,
                                 caller |-> authUser]}
                    /\ last' = NoCall
                    /\ UNCHANGED <<store, queue, nextId>>

CreateFinish ==
    \E r \in inflight :
    \E d \in DeliveryOutcomes : \E s \in SendChoices(d) :
        /\ CreateWrite(r.uid, r.key, r.typ, r.payload, r.meta, r.caller, d, s[1], s[2])
        /\ inflight' = inflight \ {r}
        /\ UNCHANGED clock

(***************************************************************************)
(* handlers/events.py: update_event                                        *)
(***************************************************************************)
\* UpdateEventRequest / BatchUpdateEventItem: provided is the set of fields
\* the request sets (model_dump(exclude_unset=True)); a field that is not
\* set holds its default, None
UpdateFields(provided, payload, meta, key) ==
    [provided |-> provided, payload |-> payload, metadata |-> meta,
     idempotency_key |-> key]

\* the requests of the model: nothing set, each field alone (set or cleared),
\* and all three at once
UpdateRequests ==
    {UpdateFields({}, None, NoMeta, None)}
    \cup {UpdateFields({"payload"}, p, NoMeta, None) : p \in {None, "p2"}}
    \cup {UpdateFields({"metadata"}, None, m, None) : m \in Metas}
    \cup {UpdateFields({"idempotency_key"}, None, NoMeta, k) : k \in MaybeKeys}
    \cup {UpdateFields({"payload", "metadata", "idempotency_key"}, "p2", BaseMeta, k) :
             k \in Keys}

\* the requests that touch the idempotency key only
KeyRequests ==
    {UpdateFields({"idempotency_key"}, None, NoMeta, k) : k \in MaybeKeys}

\* lines 1874-1897 (and 927-958): the provided fields overwrite the event's
ApplyFields(e, req) ==
    [e EXCEPT
       !.payload = IF "payload" \in req.provided THEN req.payload ELSE @,
       !.metadata = IF "metadata" \in req.provided THEN req.metadata ELSE @,
       !.idempotency_key =
           IF "idempotency_key" \in req.provided THEN req.idempotency_key ELSE @]

\* variant of ShouldRedeliver: only delivered events are redelivered
ShouldRedeliverDelivered(e) == e.status = "delivered"

\* lines 1901, 974
ShouldRedeliver(e) == e.status \in {"delivered", "replayed"}

\* lines 1902-1905 (and 975-978): reset for redelivery
ResetForRedelivery(e) ==
    IF ShouldRedeliver(e)
    THEN [e EXCEPT !.status = "pending", !.delivered_at = NoTime]
    ELSE e

\* line 1939-1943
UpdateMessage(redeliver) ==
    IF redeliver THEN "Event updated and queued for redelivery"
    ELSE "Event updated successfully"

\* update_event as one call; reqs are the request bodies
Update(reqs) ==
    \E id \in Ids, caller \in MaybeUsers, req \in reqs :
        /\ inflight = {}
        /\ UNCHANGED <<nextId, clock, inflight>>
        /\ IF get_event(store, id) = {}
           THEN /\ last' = PlainCall("update", id, caller, 404, NoEffects)
                /\ UNCHANGED <<store, queue>>
           ELSE LET e == store[id]
                    e2 == ResetForRedelivery(ApplyFields(e, req))
                    redeliver == ShouldRedeliver(e)
                IN  IF NotOwner(caller, e)
                    THEN /\ last' = PlainCall("update", id, caller, 403, NoEffects)
                         /\ UNCHANGED <<store, queue>>
                    ELSE IF req.provided = {}
                            \/ ("payload" \in req.provided /\ req.payload = None)
                    THEN /\ last' = PlainCall("update", id, caller, 400, NoEffects)
                         /\ UNCHANGED <<store, queue>>
                    ELSE \E s \in (IF redeliver THEN SendOutcomes ELSE {"ok"}) :
                         /\ queue' = IF redeliver /\ s = "ok"
                                     THEN send_message(queue, e2) ELSE queue
                         /\ BagCardinality(queue') <= MaxQueue
                         /\ store' = update_event(store, e2)
                         /\ last' = Call("update", id, caller, 200, e2,
                                Fx(id, 0, IF redeliver THEN 1 ELSE 0,
                                        IF redeliver /\ s = "ok" THEN 1 ELSE 0,
                                        IF redeliver THEN e2 ELSE <<>>, 1),
                                UpdateMessage(redeliver))

(***************************************************************************)
(* handlers/events.py: delete_event                                        *)
(***************************************************************************)
\* one delete call, whatever other requests are under way
DeleteRequest ==
    \E id \in Ids, caller \in MaybeUsers :
        /\ UNCHANGED <<queue, nextId, clock, inflight>>
        /\ IF get_event(store, id) = {}
           THEN \* idempotent delete: 204
                /\ last' = PlainCall("delete", id, caller, 204, NoEffects)
                /\ UNCHANGED store
           ELSE IF NotOwner(caller, store[id])
           THEN /\ last' = PlainCall("delete", id, caller, 403, NoEffects)
                /\ UNCHANGED store
           ELSE /\ store' = delete_event(store, id)
                /\ last' = PlainCall("delete", id, caller, 200,
                                     Fx(id, 0, 0, 0, <<>>, 1))

\* delete_event with no other request under way
Delete == inflight = {} /\ DeleteRequest

(***************************************************************************)
(* handlers/events.py: acknowledge_event                                   *)
(***************************************************************************)
\* variant of Acknowledged: the status alone
AcknowledgedStatusOnly(e, now) == [e EXCEPT !.status = "delivered"]

\* lines 2092-2094: the fields acknowledge_event sets
Acknowledged(e, now) ==
    [e EXCEPT !.status = "delivered", !.delivered_at = now]

Acknowledge ==
    \E id \in Ids :
        /\ inflight = {}
        /\ UNCHANGED <<queue, nextId, clock, inflight>>
        /\ IF get_event(store, id) = {}
           THEN /\ last' = PlainCall("acknowledge", id, None, 404, NoEffects)
                /\ UNCHANGED store
           ELSE LET e2 == Acknowledged(store[id], clock)
                IN  /\ store' = update_event(store, e2)
                    /\ last' = Call("acknowledge", id, None, 204, e2,
                                    Fx(id, 0, 0, 0, <<>>, 1), None)

(***************************************************************************)
(* handlers/events.py: replay_event                                        *)
(***************************************************************************)
\* datetime.isoformat() of a timestamp
isoformat(t) == ToString(t)

\* lines 2503-2512 (and 2351-2357): the replay provenance
ReplayMetadata(e, reason, workflow, now) ==
    LET keys == {"is_replay", "replayed_at", "replay_reason",
                 "original_created_at", "original_status"}
                \cup (IF Truthy(workflow) THEN {"target_workflow_id"} ELSE {})
    IN  [k \in keys |->
           CASE k = "is_replay" -> "true"
             [] k = "replayed_at" -> isoformat(now)
             [] k = "replay_reason" -> reason
             [] k = "original_created_at" -> isoformat(e.created_at)
             [] k = "original_status" -> e.status
             [] k = "target_workflow_id" -> workflow]

\* dict.update
DictUpdate(m, r) ==
    [k \in DOMAIN m \cup DOMAIN r |-> IF k \in DOMAIN r THEN r[k] ELSE m[k]]

\* lines 2514-2518 (and 2359-2363): merge with the existing metadata
MergeReplayMetadata(e, r) ==
    [e EXCEPT !.metadata = IF MetaTruthy(@) THEN DictUpdate(@, r) ELSE r]

\* variant of ReplayLimitReached: no ceiling
ReplayLimitOff(e) == FALSE

\* lines 2492, 2335: the replay ceiling
ReplayLimitReached(e) == e.delivery_attempts >= MAX_REPLAY_ATTEMPTS

\* variant of ReplaySucceeded: the replayed event counts as created anew
ReplaySucceededRestamped(e, now) ==
    [e EXCEPT !.status = "replayed", !.delivery_attempts = @ + 1,
              !.delivered_at = now, !.created_at = now]

\* lines 2531-2535 (and 2368-2372)
ReplaySucceeded(e, now) ==
    [e EXCEPT !.status = "replayed", !.delivery_attempts = @ + 1,
              !.delivered_at = now]

\* variant of ReplayFailed: a failed replay that does not count the attempt
ReplayFailedUncounted(e) == [e EXCEPT !.status = "pending"]

\* variant of ReplayFailed: a failed replay that stores the status failed
ReplayFailedAsFailed(e) ==
    [e EXCEPT !.status = "failed", !.delivery_attempts = @ + 1]

\* lines 2554-2557 (and 2383-2386)
ReplayFailed(e) ==
    [e EXCEPT !.status = "pending", !.delivery_attempts = @ + 1]

\* lines 2528-2579 (and 2365-2401): deliver once, write back, enqueue on
\* failure; ok is FALSE when the step ends in an exception
ReplayStep(e, st, q, d, s) ==
    CASE d = "ok" ->
           [ok |-> TRUE, event |-> ReplaySucceeded(e, clock),
            store |-> update_event(st, ReplaySucceeded(e, clock)), queue |-> q,
            fx |-> Accepted(Fx(e.event_id, 1, 0, 0, <<>>, 1))]
      [] d = "fail" ->
           [ok |-> s = "ok", event |-> ReplayFailed(e),
            store |-> update_event(st, ReplayFailed(e)),
            queue |-> IF s = "ok" THEN send_message(q, ReplayFailed(e)) ELSE q,
            fx |-> Fx(e.event_id, 1, 1, IF s = "ok" THEN 1 ELSE 0, ReplayFailed(e), 1)]

\* limit bounds the attempts up to which a run follows an event's replays;
\* callers are the identities the requests arrive with, which the handler
\* does not read (it takes no http_request)
Replay(limit, workflows, callers) ==
    \E id \in Ids, reason \in Reasons, workflow \in workflows, caller \in callers :
        /\ inflight = {}
        /\ id \in DOMAIN store => store[id].delivery_attempts < limit
        /\ UNCHANGED <<nextId, clock, inflight>>
        /\ IF get_event(store, id) = {}
           THEN /\ last' = PlainCall("replay", id, caller, 404, NoEffects)
                /\ UNCHANGED <<store, queue>>
           ELSE IF ReplayLimitReached(store[id])
           THEN /\ last' = PlainCall("replay", id, caller, 400, NoEffects)
                /\ UNCHANGED <<store, queue>>
           ELSE \E d \in DeliveryOutcomes :
                \E s \in (IF d = "fail" THEN SendOutcomes ELSE {"ok"}) :
                  LET e1 == MergeReplayMetadata(store[id],
                               ReplayMetadata(store[id], reason, workflow, clock))
                      r == ReplayStep(e1, store, queue, d, s)
                  IN  /\ store' = r.store
                      /\ queue' = r.queue
                      /\ BagCardinality(queue') <= MaxQueue
                      /\ last' = IF r.ok
                                 THEN Call("replay", id, caller, 200,
                                           [r.event EXCEPT !.delivered_at =
                                               IF d = "ok" THEN @ ELSE NoTime],
                                           r.fx,
                                           IF d = "ok"
                                           THEN "Event replayed successfully"
                                           ELSE "Event replay queued for retry")
                                 ELSE PlainCall("replay", id, caller, 500, r.fx)

(***************************************************************************)
(* Helpers of the batch handlers                                           *)
(***************************************************************************)
RECURSIVE Perms(_)
\* the enumerations of a finite set
Perms(S) ==
    IF S = {} THEN {<<>>}
    ELSE UNION {{<<x>> \o p : p \in Perms(S \ {x})} : x \in S}

Range(f) == {f[i] : i \in DOMAIN f}

\* list.sort(key=lambda r: r.index): stable insertion by index
RECURSIVE SortByIndex(_)
SortByIndex(rs) ==
    IF rs = <<>> THEN <<>>
    ELSE LET front == SortByIndex(SubSeq(rs, 1, Len(rs) - 1))
             r == rs[Len(rs)]
             k == Cardinality({i \in 1..Len(front) : front[i].index <= r.index})
         IN  SubSeq(front, 1, k) \o <<r>> \o SubSeq(front, k + 1, Len(front))

IsSuccess(r) == r.success

\* events.py:1476
IsIdempotent(r) == r.success /\ r.msg = "Event already deleted (idempotent)"

\* successful_count: sum(1 for r in results if r.success)
Successes(rs) == Cardinality({i \in 1..Len(rs) : IsSuccess(rs[i])})

\* idempotent_count of batch_delete_events
Idempotents(rs) == Cardinality({i \in 1..Len(rs) : IsIdempotent(rs[i])})

Min(a, b) == IF a < b THEN a ELSE b

\* seq[:n]
Take(seq, n) == SubSeq(seq, 1, Min(n, Len(seq)))

\* storage/dynamodb.py: list_events by status, newest first (the order of
\* events created at the same time is not fixed), at most limit of them
list_events(st, status, limit) ==
    {Take(p, limit) :
        p \in {q \in Perms({i \in DOMAIN st :
                                status = None \/ st[i].status = status}) :
                  \A i, j \in 1..Len(q) :
                      i < j => st[q[i]].created_at >= st[q[j]].created_at}}

\* storage/dynamodb.py: batch_get_events; the found events by id
\* (events_by_id).  got is FALSE when the chunk's BatchGetItem fails, which
\* the client swallows: the chunk's events are then missing from the result.
batch_get_events(st, ids, got) ==
    IF got THEN [i \in Range(ids) \cap DOMAIN st |-> st[i]] ELSE <<>>

\* BatchGetItem rejects a key list with duplicates; a chunk without
\* duplicates is read
BatchGetOutcomes(ids) ==
    IF Cardinality(Range(ids)) < Len(ids) THEN {TRUE, FALSE} ELSE {TRUE}

(***************************************************************************)
(* handlers/events.py: batch_update_events                                 *)
(***************************************************************************)
BatchUpdateItem(event_id, req) == [event_id |-> event_id, req |-> req]

\* the accumulator of the batch loops: the event objects held by id, the
\* store and the queue, the effects so far, the failed / finished results,
\* events_to_update / event_ids_to_delete (upd), index_map, and the items
\* that read the outcome of a delivery (readD) and of a send (readS), and
\* what is left of events_to_deliver (deliver)
BatchAcc(objs, st, q) ==
    [objs |-> objs, store |-> st, queue |-> q, fx |-> NoEffects,
     results |-> <<>>, upd |-> <<>>, index_map |-> <<>>, readD |-> {},
     readS |-> {}, idempotent_indices |-> {}, deliver |-> <<>>]

\* lines 893-1013: one item of the loop; idx is the item's index, s the
\* outcome of the send_message call the item may make
BatchUpdateOne(acc, idx, item, caller, s) ==
    LET id == item.event_id
        req == item.req
        Failed(code, msg) ==
            [acc EXCEPT !.results = Append(@, Result(idx, id, FALSE, code, None, msg))]
    IN  IF id \notin DOMAIN acc.objs
        THEN Failed("NOT_FOUND", "Event not found")
        ELSE LET e == acc.objs[id]
                 e2 == ResetForRedelivery(ApplyFields(e, req))
                 redeliver == ShouldRedeliver(e)
             IN  IF NotOwner(caller, e)
                 THEN Failed("FORBIDDEN", "You can only update your own events")
                 ELSE IF "payload" \in req.provided /\ req.payload = None
                 THEN Failed("VALIDATION_ERROR", "payload cannot be null")
                 ELSE IF req.provided = {}
                 THEN Failed("VALIDATION_ERROR", "At least one field must be provided")
                 ELSE [acc EXCEPT
                         !.objs[id] = e2,
                         !.queue = IF redeliver /\ s = "ok"
                                   THEN send_message(@, e2) ELSE @,
                         !.fx = Then(@, Fx(id, 0, IF redeliver THEN 1 ELSE 0,
                                           IF redeliver /\ s = "ok" THEN 1 ELSE 0,
                                           IF redeliver THEN e2 ELSE <<>>, 0)),
                         !.upd = Append(@, id),
                         !.index_map = [i \in DOMAIN acc.index_map \cup {id} |->
                                          IF i = id THEN idx ELSE acc.index_map[i]],
                         !.readS = IF redeliver THEN @ \cup {idx} ELSE @]

RECURSIVE BatchUpdateLoop(_, _, _, _, _)
\* line 893: for idx, item in enumerate(batch_items)
BatchUpdateLoop(acc, items, i, caller, outs) ==
    IF i > Len(items) THEN acc
    ELSE BatchUpdateLoop(BatchUpdateOne(acc, i - 1, items[i], caller, outs[i]),
                         items, i + 1, caller, outs)

RECURSIVE BatchUpdateWrite(_, _)
\* lines 1036-1060: update_event for every entry of events_to_update; the
\* entries are the event objects, so each write carries the object's final
\* fields
BatchUpdateWrite(acc, k) ==
    IF k > Len(acc.upd) THEN acc
    ELSE BatchUpdateWrite(
            [acc EXCEPT !.store = update_event(@, acc.objs[acc.upd[k]]),
                        !.fx = Then(@, Fx(acc.upd[k], 0, 0, 0, <<>>, 1))], k + 1)

\* lines 1063-1088: the results of the updated events
BatchUpdateResults(acc) ==
    [k \in 1..Len(acc.upd) |->
        LET e == acc.objs[acc.upd[k]]
        IN  Result(acc.index_map[e.event_id], e.event_id, TRUE, "OK", e.status,
                   UpdateMessage(e.status = "pending"))]

\* lines 1090-1105
BatchSummary(results) ==
    Summary(Len(results), Successes(results), 0,
            Len(results) - Successes(results))

\* list mode: the item lists of the request body: one item (a payload, a
\* key, nothing set, a null payload, another event), the same event twice,
\* and two events in either order
BatchUpdateItems ==
    LET A == BatchUpdateItem(1, UpdateFields({"payload"}, "p2", NoMeta, None))
        B == BatchUpdateItem(1, UpdateFields({"idempotency_key"}, None, NoMeta, "k1"))
        X == BatchUpdateItem(1, UpdateFields({}, None, NoMeta, None))
        N == BatchUpdateItem(1, UpdateFields({"payload"}, None, NoMeta, None))
        M == BatchUpdateItem(2, UpdateFields({"idempotency_key"}, None, NoMeta, "k1"))
    IN  {<<A>>, <<B>>, <<X>>, <<N>>, <<M>>, <<A, B>>, <<M, A>>, <<B, M>>}

\* filter mode: the template of the request body (lines 841-846 hand all
\* three fields to every item, set or not)
BatchTemplates ==
    {UpdateFields({"payload", "metadata", "idempotency_key"}, "p2", NoMeta, None),
     UpdateFields({"payload", "metadata", "idempotency_key"}, "p2", BaseMeta, "k1"),
     UpdateFields({"payload", "metadata", "idempotency_key"}, None, BaseMeta, None)}

\* requests, item lists and templates that touch the payload only: one item
\* (a payload, nothing set, a null payload), one event twice (accepted, then
\* rejected), and two events
PayloadRequests ==
    {UpdateFields({}, None, NoMeta, None)}
    \cup {UpdateFields({"payload"}, p, NoMeta, None) : p \in {None, "p2"}}

PayloadUpdateItems ==
    LET A == BatchUpdateItem(1, UpdateFields({"payload"}, "p2", NoMeta, None))
        X == BatchUpdateItem(1, UpdateFields({}, None, NoMeta, None))
        N == BatchUpdateItem(1, UpdateFields({"payload"}, None, NoMeta, None))
        M == BatchUpdateItem(2, UpdateFields({"payload"}, "p2", NoMeta, None))
    IN  {<<A>>, <<X>>, <<N>>, <<A, N>>, <<M, A>>}

PayloadTemplates ==
    {UpdateFields({"payload", "metadata", "idempotency_key"}, "p2", NoMeta, None),
     UpdateFields({"payload", "metadata", "idempotency_key"}, None, NoMeta, None)}

\* item lists that name one event twice, or two events in descending order
RepeatedUpdateItems ==
    LET A == BatchUpdateItem(1, UpdateFields({"payload"}, "p2", NoMeta, None))
        M == BatchUpdateItem(2, UpdateFields({"payload"}, "p2", NoMeta, None))
    IN  {<<A>>, <<A, A>>, <<M, A>>}

\* item lists and templates that leave payload and metadata as created
KeyUpdateItems ==
    LET B == BatchUpdateItem(1, UpdateFields({"idempotency_key"}, None, NoMeta, "k1"))
        M == BatchUpdateItem(2, UpdateFields({"idempotency_key"}, None, NoMeta, "k1"))
    IN  {<<B>>, <<M>>, <<B, M>>}

KeyTemplates ==
    {UpdateFields({"payload", "metadata", "idempotency_key"}, "p1", NoMeta, "k1")}

\* lines 841-846: BatchUpdateEventItem(event_id=..., payload=request.payload,
\* metadata=request.metadata, idempotency_key=request.idempotency_key): the
\* item built from the request body req has all three fields set, those the
\* body left out with their default None
TemplateFields(req) ==
    UpdateFields({"payload", "metadata", "idempotency_key"},
                 req.payload, req.metadata, req.idempotency_key)

\* lines 838-847: the items built from the matching events the caller owns
FilterItems(ids, st, caller, template) ==
    LET own == SelectSeq(ids, LAMBDA i : ~NotOwner(caller, st[i]))
    IN  [k \in 1..Len(own) |-> BatchUpdateItem(own[k], template)]

\* lines 882-1135: the batch over the items
BatchUpdateDone(items, caller, got, outs) ==
    LET ids == [k \in 1..Len(items) |-> items[k].event_id]
        acc0 == BatchAcc(batch_get_events(store, ids, got), store, queue)
        acc1 == BatchUpdateLoop(acc0, items, 1, caller, outs)
    IN  BatchUpdateWrite(acc1, 1)

\* the items that call send_message do so whatever the outcome of the sends
\* before them: a first pass finds them, the outcomes are drawn for them only
BatchUpdateRun(items, caller, status) ==
    \E got \in BatchGetOutcomes([k \in 1..Len(items) |-> items[k].event_id]) :
    \E pass \in {BatchUpdateDone(items, caller, got,
                                 [i \in 1..Len(items) |-> "ok"])} :
    \E raising \in SUBSET pass.readS :
    \E acc \in {IF raising = {} THEN pass
                ELSE BatchUpdateDone(items, caller, got,
                        [i \in 1..Len(items) |->
                            IF (i - 1) \in raising THEN "raise" ELSE "ok"])} :
    \E results \in {SortByIndex(acc.results \o BatchUpdateResults(acc))} :
        /\ BagCardinality(acc.queue) <= MaxQueue
        /\ store' = acc.store
        /\ queue' = acc.queue
        /\ last' = [BatchCall("batch_update", caller, 200, acc.fx, results,
                              BatchSummary(results))
                       EXCEPT !.msg = FilterMode(status),
                              !.filter = status,
                              !.request = IF status = None
                                          THEN [k \in 1..Len(items) |->
                                                  items[k].event_id]
                                          ELSE <<>>]

\* batch_update_events as one call; lists are the event lists of list mode,
\* templates the request bodies of filter mode, max the batch limit
BatchUpdate(lists, templates, max) ==
    \E caller \in MaybeUsers :
        /\ inflight = {}
        /\ UNCHANGED <<nextId, clock, inflight>>
        /\ \/ \E items \in lists :
                IF Len(items) > max
                THEN /\ last' = Unprocessable("batch_update", caller,
                                   [k \in 1..Len(items) |-> items[k].event_id], <<>>)
                     /\ UNCHANGED <<store, queue>>
                ELSE BatchUpdateRun(items, caller, None)
           \/ \E status \in Statuses, template \in templates :
              \E ids \in list_events(store, status, max) :
                 LET items == FilterItems(ids, store, caller, template)
                 IN  IF items = <<>>
                     THEN /\ last' = [BatchCall("batch_update", caller, 200, NoEffects,
                                         <<>>, Summary(0, 0, 0, 0))
                                        EXCEPT !.msg = "filter", !.filter = status]
                          /\ UNCHANGED <<store, queue>>
                     ELSE BatchUpdateRun(items, caller, status)

(***************************************************************************)
(* handlers/events.py: batch_delete_events and batch_replay_events share   *)
(* the collection of the event ids                                         *)
(***************************************************************************)
\* the status filters of the query string (None: no filter)
FilterStatuses == {None, "pending", "delivered"}

\* the event_ids lists of the request body: without repetition in
\* ascending order, and in any order with an id named twice
BodyIds == {<<>>, <<1>>, <<1, 2>>}
BodyIdLists == BodyIds \cup {<<2, 1>>, <<1, 1>>}

\* lines 1239-1250 (and 2197-2208): the events list_events returns; none
\* without a filter
BatchMatching(st, status, limit) ==
    IF status = None THEN {<<>>} ELSE list_events(st, status, limit)

\* variant of BatchIdSet: every matching event, whoever owns it
BatchIdSetAll(st, caller, matching, body) == Range(matching) \cup Range(body)

\* lines 1227-1288 (and 2185-2246): the ids of the matching events the
\* caller owns, joined with the ids of the body
BatchIdSet(st, caller, matching, body) ==
    {i \in Range(matching) : ~NotOwner(caller, st[i])} \cup Range(body)

\* lines 1316 (and 2274): list(event_ids_set)[:100], in the set's iteration
\* order
BatchIdLists(idset, max) == {Take(p, max) : p \in Perms(idset)}

(***************************************************************************)
(* handlers/events.py: batch_delete_events                                 *)
(***************************************************************************)
\* variant of BatchDeleteOne: an absent id is an error
BatchDeleteOneStrict(acc, idx, id, caller) ==
    IF id \notin DOMAIN acc.objs
    THEN [acc EXCEPT !.results = Append(@, Result(idx, id, FALSE, "NOT_FOUND", None,
                                        "Event not found"))]
    ELSE IF NotOwner(caller, acc.objs[id])
    THEN [acc EXCEPT !.results = Append(@, Result(idx, id, FALSE, "FORBIDDEN", None,
                                        "You can only delete your own events"))]
    ELSE [acc EXCEPT !.upd = Append(@, id),
                     !.index_map = [i \in DOMAIN acc.index_map \cup {id} |->
                                      IF i = id THEN idx ELSE acc.index_map[i]]]

\* lines 1349-1389: one id of the loop
BatchDeleteOne(acc, idx, id, caller) ==
    IF id \notin DOMAIN acc.objs
    THEN [acc EXCEPT !.results = Append(@, Result(idx, id, TRUE, "OK", None,
                                        "Event already deleted (idempotent)"))]
    ELSE IF NotOwner(caller, acc.objs[id])
    THEN [acc EXCEPT !.results = Append(@, Result(idx, id, FALSE, "FORBIDDEN", None,
                                        "You can only delete your own events"))]
    ELSE [acc EXCEPT !.upd = Append(@, id),
                     !.index_map = [i \in DOMAIN acc.index_map \cup {id} |->
                                      IF i = id THEN idx ELSE acc.index_map[i]]]

RECURSIVE BatchDeleteLoop(_, _, _, _)
BatchDeleteLoop(acc, ids, i, caller) ==
    IF i > Len(ids) THEN acc
    ELSE BatchDeleteLoop(BatchDeleteOne(acc, i - 1, ids[i], caller), ids, i + 1,
                         caller)

\* storage/dynamodb.py: batch_delete_events
batch_delete_events(st, ids) == [i \in DOMAIN st \ Range(ids) |-> st[i]]

\* lines 1425-1466: the deletion and the results of the deleted events
BatchDeleteDone(ids, caller) ==
    LET acc0 == BatchAcc(batch_get_events(store, ids, TRUE), store, queue)
        acc1 == BatchDeleteLoop(acc0, ids, 1, caller)
    IN  [acc1 EXCEPT
           !.store = batch_delete_events(@, acc1.upd),
           !.fx = Then(@, Effects(<<>>, <<>>, 0, <<>>, Len(acc1.upd))),
           !.results = @ \o [k \in 1..Len(acc1.upd) |->
                               Result(acc1.index_map[acc1.upd[k]], acc1.upd[k], TRUE,
                                      "OK", None, "Event deleted")]]

\* lines 1469-1483
BatchDeleteSummary(results) ==
    Summary(Len(results), Successes(results), Idempotents(results),
            Len(results) - Successes(results))

\* bodies are the event_ids lists of the requests, max the batch limit
BatchDelete(bodies, max) ==
    \E caller \in MaybeUsers, status \in FilterStatuses, body \in bodies :
        /\ inflight = {}
        /\ UNCHANGED <<queue, nextId, clock, inflight>>
        /\ IF Len(body) > max
           THEN /\ last' = Unprocessable("batch_delete", caller, body, <<>>)
                /\ UNCHANGED store
           ELSE \E matching \in BatchMatching(store, status, max) :
                LET idset == BatchIdSet(store, caller, matching, body)
                IN  IF idset = {}
                    THEN /\ UNCHANGED store
                         /\ last' = [IF status # None
                                     THEN BatchCall("batch_delete", caller, 200,
                                                    NoEffects, <<>>, Summary(0, 0, 0, 0))
                                     ELSE PlainCall("batch_delete", NoId, caller, 400,
                                                    NoEffects)
                                       EXCEPT !.request = body, !.filter = status,
                                              !.msg = FilterMode(status)]
                    ELSE \E ids \in BatchIdLists(idset, max) :
                         \E acc \in {BatchDeleteDone(ids, caller)} :
                         \E results \in {SortByIndex(acc.results)} :
                             /\ store' = acc.store
                             /\ last' = [BatchCall("batch_delete", caller, 200, acc.fx,
                                                   results, BatchDeleteSummary(results))
                                            EXCEPT !.request = body, !.filter = status,
                                                   !.msg = FilterMode(status)]

(***************************************************************************)
(* handlers/events.py: batch_replay_events                                 *)
(***************************************************************************)
\* lines 2285-2421: one id of the loop; d and s are the outcomes of the
\* delivery and of the send the item may make
BatchReplayOne(acc, idx, id, caller, d, s) ==
    LET Failed(code, msg) ==
            [acc EXCEPT !.results = Append(@, Result(idx, id, FALSE, code, "failed", msg))]
    IN  IF id \notin DOMAIN acc.objs
        THEN Failed("NOT_FOUND", "Event not found")
        ELSE IF NotOwner(caller, acc.objs[id])
        THEN Failed("FORBIDDEN", "You can only replay your own events")
        ELSE IF ReplayLimitReached(acc.objs[id])
        THEN Failed("MAX_ATTEMPTS_EXCEEDED",
                    "Event has exceeded maximum replay attempts (10)")
        ELSE LET e == acc.objs[id]
                 e1 == MergeReplayMetadata(e,
                          ReplayMetadata(e, "batch_replay", None, clock))
                 r == ReplayStep(e1, acc.store, acc.queue, d, s)
             IN  [acc EXCEPT
                    !.objs[id] = r.event,
                    !.store = r.store,
                    !.queue = r.queue,
                    !.fx = Then(@, r.fx),
                    !.readD = @ \cup {idx},
                    !.readS = IF d = "fail" THEN @ \cup {idx} ELSE @,
                    !.results = Append(@,
                        IF r.ok
                        THEN Result(idx, id, TRUE, "OK", r.event.status,
                                    IF d = "ok" THEN "Event replayed successfully"
                                    ELSE "Event replay queued for retry")
                        ELSE Result(idx, id, FALSE, "REPLAY_FAILED", "failed",
                                    "Replay failed"))]

RECURSIVE BatchReplayLoop(_, _, _, _, _)
BatchReplayLoop(acc, ids, i, caller, outs) ==
    IF i > Len(ids) THEN acc
    ELSE BatchReplayLoop(BatchReplayOne(acc, i - 1, ids[i], caller, outs[i][1],
                                        outs[i][2]),
                         ids, i + 1, caller, outs)

\* lines 2429-2434: total is the number of ids, the counters count the loop
BatchReplaySummary(ids, results) ==
    Summary(Len(ids), Successes(results), 0,
            Len(results) - Successes(results))

\* lines 2279-2421: the loop over the ids
BatchReplayDone(ids, caller, outs) ==
    BatchReplayLoop(BatchAcc(batch_get_events(store, ids, TRUE), store, queue),
                    ids, 1, caller, outs)

\* the outcomes <<delivery, send>> one replay may meet
ReplayOutcomes == {<<"ok", "ok">>, <<"fail", "ok">>, <<"fail", "raise">>}

\* limit bounds the attempts up to which a run follows an event's replays,
\* bodies are the event_ids lists of the requests, max the batch limit
BatchReplay(limit, bodies, max) ==
    \E caller \in MaybeUsers, status \in FilterStatuses, body \in bodies :
        /\ inflight = {}
        /\ UNCHANGED <<nextId, clock, inflight>>
        /\ IF Len(body) > max
           THEN /\ last' = Unprocessable("batch_replay", caller, body, <<>>)
                /\ UNCHANGED <<store, queue>>
           ELSE \E matching \in BatchMatching(store, status, max) :
                LET idset == BatchIdSet(store, caller, matching, body)
                IN  IF idset = {}
                    THEN /\ UNCHANGED <<store, queue>>
                         /\ last' = [IF status # None
                                     THEN BatchCall("batch_replay", caller, 200,
                                                    NoEffects, <<>>, Summary(0, 0, 0, 0))
                                     ELSE PlainCall("batch_replay", NoId, caller, 400,
                                                    NoEffects)
                                       EXCEPT !.request = body, !.filter = status,
                                              !.msg = FilterMode(status)]
                    ELSE /\ \A id \in idset \cap DOMAIN store :
                               store[id].delivery_attempts < limit
                         /\ \E ids \in BatchIdLists(idset, max) :
                            \E pass \in {BatchReplayDone(ids, caller,
                                            [i \in 1..Len(ids) |-> <<"ok", "ok">>])} :
                            \E outs \in [pass.readD -> ReplayOutcomes] :
                            \E acc \in {BatchReplayDone(ids, caller,
                                            [i \in 1..Len(ids) |->
                                                IF (i - 1) \in pass.readD
                                                THEN outs[i - 1] ELSE <<"ok", "ok">>])} :
                               /\ BagCardinality(acc.queue) <= MaxQueue
                               /\ store' = acc.store
                               /\ queue' = acc.queue
                               /\ last' = [BatchCall("batch_replay", caller, 200,
                                              acc.fx, acc.results,
                                              BatchReplaySummary(ids, acc.results))
                                              EXCEPT !.request = body,
                                                     !.filter = status,
                                                     !.msg = FilterMode(status)]

(***************************************************************************)
(* handlers/events.py: batch_create_events                                 *)
(***************************************************************************)
\* models/request.py: one item of the request
BatchCreateItem(uid, key, typ, payload, meta) ==
    [user_id |-> uid, idempotency_key |-> key, event_type |-> typ,
     payload |-> payload, metadata |-> meta]

\* line 459: the item's owner, from the body first
BatchCreateOwner(item, authUser) ==
    IF Truthy(item.user_id) THEN item.user_id ELSE authUser

\* line 462: the lookup, made when the key and the owner are both present
BatchCreateExisting(st, uid, key) ==
    IF Truthy(key) /\ Truthy(uid) THEN get_event_by_idempotency_key(st, uid, key)
    ELSE {}

\* models/event.py:84-98: the validation Event(...) makes of the event type
\* (CreateEventRequest asks for 1 to 100 characters only)
ValidEvent(item) == item.event_type \in EventTypes

\* lines 456-547: one item of the first loop; the lookup reads the store,
\* which holds none of the batch's events yet; pick chooses the item the
\* index query returns
BatchCreatePrepare(acc, idx, item, authUser, first) ==
    LET uid == BatchCreateOwner(item, authUser)
        found == BatchCreateExisting(acc.store, uid, item.idempotency_key)
    IN  IF found # {}
        THEN LET existing == CHOOSE e \in found : TRUE
             IN  [acc EXCEPT
                    !.results = Append(@, Result(idx, existing.event_id, TRUE, "OK",
                                    existing.status,
                                    "Event already exists with this idempotency key")),
                    !.idempotent_indices = @ \cup {idx}]
        ELSE IF ~ValidEvent(item)
        THEN [acc EXCEPT
                !.results = Append(@, Result(idx, NoId, FALSE, "VALIDATION_ERROR",
                                             None, "event_type must contain only lowercase letters, numbers, dots, and underscores"))]
        ELSE LET id == first + Len(acc.upd)
                 e0 == Event(id, item.event_type, item.payload, item.metadata,
                             "pending", clock, NoTime, 0, uid, item.idempotency_key)
             IN  [acc EXCEPT
                    !.objs = [i \in DOMAIN acc.objs \cup {id} |->
                                IF i = id THEN e0 ELSE acc.objs[i]],
                    !.upd = Append(@, id),
                    !.index_map = [i \in DOMAIN acc.index_map \cup {id} |->
                                     IF i = id THEN idx ELSE acc.index_map[i]]]

RECURSIVE BatchCreateLoop(_, _, _, _, _)
BatchCreateLoop(acc, items, i, authUser, first) ==
    IF i > Len(items) THEN acc
    ELSE BatchCreateLoop(BatchCreatePrepare(acc, i - 1, items[i], authUser, first),
                         items, i + 1, authUser, first)

RECURSIVE batch_put_events(_, _, _)
\* storage/dynamodb.py: batch_put_events
batch_put_events(st, objs, ids) ==
    IF ids = <<>> THEN st
    ELSE batch_put_events(put_event(st, objs[Head(ids)]), objs, Tail(ids))

RECURSIVE BatchCreateDeliver(_, _, _)
\* lines 572-620: the push-or-queue step of every stored event
BatchCreateDeliver(acc, k, outs) ==
    IF k > Len(acc.deliver) THEN acc
    ELSE LET id == acc.deliver[k]
             r == PushOrQueue(acc.objs[id], acc.queue, outs[k][1], outs[k][2],
                              outs[k][3], clock)
         IN  BatchCreateDeliver(
                [acc EXCEPT !.objs[id] = r.event,
                            !.queue = r.queue,
                            !.fx = Then(@, [r.fx EXCEPT !.writes = 0])],
                k + 1, outs)

RECURSIVE BatchCreateUpdate(_, _)
\* lines 623-636: update_event of the delivered events
BatchCreateUpdate(acc, k) ==
    IF k > Len(acc.deliver) THEN acc
    ELSE LET e == acc.objs[acc.deliver[k]]
         IN  BatchCreateUpdate(
                IF e.status = "delivered"
                THEN [acc EXCEPT !.store = update_event(@, e),
                                 !.fx = Then(@, Fx(e.event_id, 0, 0, 0, <<>>, 1))]
                ELSE acc, k + 1)

\* lines 639-660: the results of the stored events
BatchCreateResults(acc) ==
    [k \in 1..Len(acc.deliver) |->
        LET e == acc.objs[acc.deliver[k]]
        IN  Result(acc.index_map[e.event_id], e.event_id, TRUE, "OK", e.status,
                   StatusMessage(e))]

\* lines 665-676
BatchCreateSummary(results, idempotent_indices) ==
    Summary(Len(results),
            Cardinality({i \in 1..Len(results) :
                            results[i].success
                            /\ results[i].index \notin idempotent_indices}),
            Cardinality(idempotent_indices),
            Len(results) - Successes(results))

\* lines 456-547: the first loop
BatchCreatePrepared(items, authUser) ==
    BatchCreateLoop(BatchAcc(<<>>, store, queue), items, 1, authUser, nextId)

\* variant of StorageErrorResults: a failed write leaves no result
StorageErrorResultsNone(acc, bad) == <<>>

\* lines 555-569: the results of the events batch_put_events reports failed
StorageErrorResults(acc, bad) ==
    [k \in 1..Len(bad) |->
        Result(acc.index_map[bad[k]], bad[k], FALSE, "STORAGE_ERROR", None,
               "Unprocessed by DynamoDB")]

\* lines 549-569: batch_put_events and its failed items; failed are the ids
\* DynamoDB leaves unprocessed.  The events written are successful_event_ids
\* and what is left of events_to_deliver.
BatchCreateStored(acc1, failed) ==
    LET ok == SelectSeq(acc1.upd, LAMBDA i : i \notin failed)
        bad == SelectSeq(acc1.upd, LAMBDA i : i \in failed)
    IN  [acc1 EXCEPT
           !.store = batch_put_events(@, acc1.objs, ok),
           !.fx = Then(@, Effects(<<>>, <<>>, 0, <<>>, Len(ok))),
           !.results = @ \o StorageErrorResults(acc1, bad),
           !.deliver = ok]

\* the outcomes <<delivery, first send, second send>> of one push-or-queue
PushOutcomes ==
    UNION {{<<d, s[1], s[2]>> : s \in SendChoices(d)} : d \in DeliveryOutcomes}

\* the event lists of the request body: one event (without owner and key,
\* with a key under either owner), the same owner and key twice, and two
\* different events
BatchCreateItems ==
    LET A == BatchCreateItem(None, None, "order.created", "p1", NoMeta)
        B == BatchCreateItem("u1", "k1", "order.created", "p1", NoMeta)
        C == BatchCreateItem("u2", "k1", "order.created", "p1", NoMeta)
        D == BatchCreateItem(None, "k1", "order.created", "p1", NoMeta)
    IN  {<<A>>, <<B>>, <<C>>, <<D>>, <<B, B>>, <<B, C>>, <<D, A>>}

\* the event lists with an item Event refuses: alone, after, before and
\* between items that are accepted
PartialCreateItems ==
    LET A == BatchCreateItem(None, None, "order.created", "p1", NoMeta)
        B == BatchCreateItem("u1", "k1", "order.created", "p1", NoMeta)
        V == BatchCreateItem(None, None, "Order-Created", "p1", NoMeta)
    IN  {<<A>>, <<V>>, <<A, V>>, <<V, B>>, <<A, V, A>>, <<B, A>>}

\* the sets of events a batch write may leave unprocessed
StorageFaults(ids, faults) == IF faults THEN SUBSET Range(ids) ELSE {{}}

\* cap bounds the events created in a run, lists are the event lists of the
\* requests, faults tells whether batch_put_events may fail, max is the
\* batch limit
BatchCreate(cap, lists, faults, max) ==
    \E authUser \in MaybeUsers, items \in lists :
        /\ inflight = {}
        /\ UNCHANGED <<clock, inflight>>
        /\ IF Len(items) > max
           THEN /\ last' = Unprocessable("batch_create", authUser, <<>>, items)
                /\ UNCHANGED <<store, queue, nextId>>
           ELSE \E prepared \in {BatchCreatePrepared(items, authUser)} :
                /\ nextId + Len(prepared.upd) - 1 <= cap
                /\ \E failed \in StorageFaults(prepared.upd, faults) :
                   \E stored \in {BatchCreateStored(prepared, failed)} :
                   \E outs \in [1..Len(stored.deliver) -> PushOutcomes] :
                   \E acc \in {BatchCreateUpdate(
                                  BatchCreateDeliver(stored, 1, outs), 1)} :
                   \E results \in {SortByIndex(acc.results
                                               \o BatchCreateResults(acc))} :
                      /\ BagCardinality(acc.queue) <= MaxQueue
                      /\ nextId' = nextId + Len(acc.upd)
                      /\ store' = acc.store
                      /\ queue' = acc.queue
                      /\ last' = [BatchCall("batch_create", authUser, 201, acc.fx,
                                     results,
                                     BatchCreateSummary(results,
                                                        acc.idempotent_indices))
                                     EXCEPT !.items = items]

(***************************************************************************)
(* delivery/worker.py: handler, one record of the SQS batch                *)
(***************************************************************************)
\* what a call of an async method gives a caller that does not await it: a
\* coroutine object, whatever the method would find (an awaited call gives
\* an object of kind "event" or "none")
NotAwaited(found) == [kind |-> "coroutine", event |-> <<>>]

\* line 158: db_event = db_client.get_event(event_obj.event_id), a call of
\* an async method (storage/dynamodb.py:139) from the synchronous handler
WorkerLookup(st, id) == NotAwaited(get_event(st, id))

\* `not db_event`: None is falsy, an Event or a coroutine object is truthy
ObjTruthy(obj) == obj.kind # "none"

\* lines 62-63: isinstance(event, Event)
IsEvent(obj) == obj.kind = "event"

\* the message is deleted from the queue unless the handler reports it
Consume(q, m, reported) == IF reported THEN q ELSE q (-) SetToBag({m})

\* lines 149-206: one record; the message stays on the queue when the
\* handler reports it in batchItemFailures
WorkerRecord ==
    \E m \in BagToSet(queue) :
        LET id == m.event_id
            db_event == WorkerLookup(store, id)
        IN  /\ UNCHANGED <<nextId, clock, inflight>>
            /\ IF ~ObjTruthy(db_event)
               THEN \* lines 159-166: orphaned message, dropped
                    /\ store' = store
                    /\ queue' = Consume(queue, m, FALSE)
                    /\ last' = PlainCall("worker", id, None, 0, NoEffects)
               ELSE IF ~IsEvent(db_event)
               THEN \* line 63 raises ValueError, lines 198-206 report it
                    /\ store' = store
                    /\ queue' = Consume(queue, m, TRUE)
                    /\ last' = [PlainCall("worker", id, None, 0, NoEffects)
                                  EXCEPT !.failures = <<id>>]
               ELSE \E d \in DeliveryOutcomes :
                    LET e == db_event.event
                        e2 == IF d = "ok"
                              THEN [e EXCEPT !.status = "delivered",
                                             !.delivered_at = clock,
                                             !.delivery_attempts = @ + 1]
                              ELSE [e EXCEPT !.delivery_attempts = @ + 1]
                        \* lines 67-73: the POST carries the stored event
                        fx == Fx(id, 1, 0, 0, Message(e), 1)
                    IN  /\ store' = update_event(store, e2)
                        /\ queue' = Consume(queue, m, d = "fail")
                        /\ last' = [Call("worker", id, None, 0, e2,
                                         IF d = "ok" THEN Accepted(fx) ELSE fx, None)
                                      EXCEPT !.failures =
                                                IF d = "ok" THEN <<>> ELSE <<id>>]

\* the worker with no request under way
Worker == inflight = {} /\ WorkerRecord

(***************************************************************************)
(* Overlapping requests.  update_event, acknowledge_event and replay_event *)
(* each read the event (db_client.get_event), work on the object read and  *)
(* write it back whole (db_client.update_event, a put_item); other         *)
(* requests run between the read and the write.  A request under way is a  *)
(* record of inflight holding the event it read.                           *)
(***************************************************************************)
NoRequest == UpdateFields({}, None, NoMeta, None)

\* sent: 0 before update_event's send_message, 1 after it succeeded, 2 after
\* it raised (lines 1915-1927 catch the exception)
Reading(n, op, id, e, req) ==
    [n |-> n, op |-> op, id |-> id, event |-> e, req |-> req, sent |-> 0]

\* lines 1865-1885: the bodies update_event answers with 400
BadUpdate(req) ==
    \/ req.provided = {}
    \/ ("payload" \in req.provided /\ req.payload = None)

\* lines 1843, 2085, 2483: the handler's get_event; limit bounds the
\* attempts up to which a run follows an event's replays
ReadEvent(ops, reqs, limit) ==
    \E id \in Ids, op \in ops :
    \E req \in (IF op = "update" THEN reqs ELSE {NoRequest}) :
        /\ Cardinality(inflight) < MaxInflight
        /\ (op = "replay" /\ id \in DOMAIN store)
              => store[id].delivery_attempts < limit
        /\ UNCHANGED <<store, queue, nextId, clock>>
        /\ IF get_event(store, id) = {}
           THEN /\ last' = PlainCall(op, id, None, 404, NoEffects)
                /\ UNCHANGED inflight
           ELSE /\ \E n \in 1..MaxInflight :
                     /\ \A r \in inflight : r.n # n
                     /\ \A k \in 1..(n - 1) : \E r \in inflight : r.n = k
                     /\ inflight' = inflight
                                       \cup {Reading(n, op, id, store[id], req)}
                /\ last' = NoCall

\* lines 1901-1927: update_event puts the redelivery message on the queue
\* before it writes the event
UpdateSend ==
    \E r \in inflight, s \in SendOutcomes :
        LET e2 == ResetForRedelivery(ApplyFields(r.event, r.req))
        IN  /\ r.op = "update"
            /\ r.sent = 0
            /\ ~BadUpdate(r.req)
            /\ ShouldRedeliver(r.event)
            /\ queue' = IF s = "ok" THEN send_message(queue, e2) ELSE queue
            /\ BagCardinality(queue') <= MaxQueue
            /\ inflight' = (inflight \ {r})
                              \cup {[r EXCEPT !.sent = IF s = "ok" THEN 1 ELSE 2]}
            /\ last' = NoCall
            /\ UNCHANGED <<store, nextId, clock>>

\* line 1937: update_event writes the object it read, with the request's
\* fields applied, and answers
UpdateWrite(r) ==
    LET e2 == ResetForRedelivery(ApplyFields(r.event, r.req))
        redeliver == ShouldRedeliver(r.event)
    IN  IF BadUpdate(r.req)
        THEN /\ last' = PlainCall("update", r.id, None, 400, NoEffects)
             /\ UNCHANGED <<store, queue>>
        ELSE /\ redeliver => r.sent # 0
             /\ store' = update_event(store, e2)
             /\ queue' = queue
             /\ last' = Call("update", r.id, None, 200, e2,
                             Fx(r.id, 0, IF redeliver THEN 1 ELSE 0,
                                IF r.sent = 1 THEN 1 ELSE 0,
                                IF redeliver THEN e2 ELSE <<>>, 1),
                             UpdateMessage(redeliver))

\* lines 2093-2096: acknowledge_event writes the object it read
AcknowledgeWrite(r) ==
    LET e2 == Acknowledged(r.event, clock)
    IN  /\ store' = update_event(store, e2)
        /\ queue' = queue
        /\ last' = Call("acknowledge", r.id, None, 204, e2,
                        Fx(r.id, 0, 0, 0, <<>>, 1), None)

\* lines 2492-2579: replay_event delivers and writes the object it read
ReplayWrite(r) ==
    IF ReplayLimitReached(r.event)
    THEN /\ last' = PlainCall("replay", r.id, None, 400, NoEffects)
         /\ UNCHANGED <<store, queue>>
    ELSE \E d \in DeliveryOutcomes, reason \in Reasons :
         \E s \in (IF d = "fail" THEN SendOutcomes ELSE {"ok"}) :
           LET e1 == MergeReplayMetadata(r.event,
                        ReplayMetadata(r.event, reason, None, clock))
               w == ReplayStep(e1, store, queue, d, s)
           IN  /\ store' = w.store
               /\ queue' = w.queue
               /\ BagCardinality(queue') <= MaxQueue
               /\ last' = IF w.ok
                          THEN Call("replay", r.id, None, 200,
                                    [w.event EXCEPT !.delivered_at =
                                        IF d = "ok" THEN @ ELSE NoTime],
                                    w.fx,
                                    IF d = "ok"
                                    THEN "Event replayed successfully"
                                    ELSE "Event replay queued for retry")
                          ELSE PlainCall("replay", r.id, None, 500, w.fx)

\* the rest of a request under way, from its write to its response
WriteBack ==
    \E r \in inflight :
        /\ inflight' = inflight \ {r}
        /\ UNCHANGED <<nextId, clock>>
        /\ CASE r.op = "update" -> UpdateWrite(r)
             [] r.op = "acknowledge" -> AcknowledgeWrite(r)
             [] r.op = "replay" -> ReplayWrite(r)

(***************************************************************************)
(* delivery/retry.py: retry_delivery                                       *)
(***************************************************************************)
\* what one call of the delivery function does: it returns True or False
\* or raises an exception that is not retried (an httpx error that is
\* retried, "timeout", goes the way of False)
CallOutcomes == {"true", "false", "error"}

\* the outcomes the successive calls of the delivery function would have
OutcomeLists == [1..MaxCalls -> CallOutcomes]

\* utils/logger.py lines 56-69: the module's logger is a structlog generic
\* BoundLogger over a WriteLogger
logger == "structlog.BoundLogger"

\* lines 33-34: before_log / after_log call logger.log(level, message).  A
\* structlog generic BoundLogger forwards log(...) to
\* _proxy_to_logger(method_name, event=None, **kw), which takes one
\* positional argument: the call raises TypeError.
LogHookRaises(lg) == lg = "structlog.BoundLogger"

\* line 26: stop=stop_after_attempt(5), asked after attempt n failed
stop_after_attempt(n) == n >= RETRY_ATTEMPTS

\* lines 28-32 and 53-59: a False result is turned into HTTPStatusError,
\* which is retried like the timeout and network errors; another exception
\* is not
Retried(o) == o \in {"false", "timeout"}

\* lines 50-62: the decorated attempt_delivery from attempt n on; calls is
\* the number of calls of delivery_fn made, result what retry_delivery
\* returns (reraise=True hands the last exception to the except of line 64)
RECURSIVE attempt_delivery(_, _, _)
attempt_delivery(outcomes, lg, n) ==
    IF LogHookRaises(lg)
    THEN \* the before hook of attempt n raises: line 64 returns False
         [calls |-> n - 1, result |-> "false"]
    ELSE IF outcomes[n] = "true"
    THEN [calls |-> n, result |-> "true"]
    ELSE IF ~Retried(outcomes[n]) \/ stop_after_attempt(n)
    THEN [calls |-> n, result |-> "false"]
    ELSE attempt_delivery(outcomes, lg, n + 1)

\* lines 38-66
retry_delivery(outcomes, lg) == attempt_delivery(outcomes, lg, 1)

\* one call of retry_delivery for event 1; the call record keeps the
\* outcomes the delivery function was set to have (request), the calls made
\* (delivers) and the value returned (msg)
RetryDelivery(loggers) ==
    \E outcomes \in OutcomeLists, lg \in loggers :
        LET r == retry_delivery(outcomes, lg)
            fx == Fx(1, r.calls, 0, 0, <<>>, 0)
        IN  /\ inflight = {}
            /\ UNCHANGED <<store, queue, nextId, clock, inflight>>
            /\ last' = [PlainCall("retry_delivery", 1, None, 0,
                                   IF r.result = "true" THEN
                                      [fx EXCEPT !.oks = <<1>>] ELSE fx)
                          EXCEPT !.request = outcomes, !.msg = r.result]

(***************************************************************************)
(* utils/filters.py and the listing GET /events                            *)
(***************************************************************************)
\* the Python values a filter reads from an event: numbers (amounts in
\* hundredths), strings, datetimes (in the time unit of clock) and None
Num(n) == [t |-> "num", n |-> n, s |-> ""]
Str(s) == [t |-> "str", n |-> 0, s |-> s]
DateTime(d) == [t |-> "datetime", n |-> d, s |-> ""]
PyNone == [t |-> "none", n |-> 0, s |-> ""]

\* the strings of the model in the order of Python's str comparison
Texts == <<"100", "2024-01-15T00:00:00Z", "99.99", "api", "ecommerce">>

StrRank(s) == CHOOSE i \in 1..Len(Texts) : Texts[i] = s

\* three stored events (the sample events of
\* tests/integration/test_event_filtering.py), created at times 3, 5 and 1
SampleEvents ==
    <<Event(1, "order.created",
            [amount |-> Num(9999), order_id |-> Str("12345")],
            [source |-> Str("ecommerce")], "delivered", 3, 4, 1, None, None),
      Event(2, "user.created",
            [amount |-> Num(15000), user_id |-> Str("67890")],
            [source |-> Str("api")], "pending", 5, NoTime, 0, None, None),
      Event(3, "order.shipped",
            [amount |-> Num(7550), order_id |-> Str("54321")],
            [source |-> Str("ecommerce")], "failed", 1, NoTime, 3, None, None)>>

\* line 121: the operators a bracket may name (contains and startswith,
\* which no query of the model uses, are left out)
ValidOperators == {"eq", "gt", "gte", "lt", "lte", "ne"}

\* one query parameter: the key is a field path, with or without a
\* bracket, and the value is text
Param(path, bracket, value) == [path |-> path, bracket |-> bracket, value |-> value]

\* dict(request.query_params), line 1744: one entry per key, at the place
\* of its first occurrence and with its last value
RECURSIVE QueryDict(_)
QueryDict(params) ==
    IF params = <<>> THEN <<>>
    ELSE LET n == Len(params)
             p == params[n]
             before == QueryDict(SubSeq(params, 1, n - 1))
             SameKey(q) == q.path = p.path /\ q.bracket = p.bracket
         IN  IF \E j \in 1..Len(before) : SameKey(before[j])
             THEN [j \in 1..Len(before) |->
                      IF SameKey(before[j]) THEN p ELSE before[j]]
             ELSE Append(before, p)

\* lines 43-50: EventFilter._determine_field_type
determine_field_type(path) ==
    IF path[1] \in {"payload", "metadata"} /\ Len(path) > 1 THEN "json"
    ELSE IF path \in {<<"created_at">>, <<"delivered_at">>, <<"created_after">>,
                      <<"created_before">>, <<"delivered_after">>,
                      <<"delivered_before">>}
    THEN "date"
    ELSE "direct"

\* lines 37-41: EventFilter(field, operator, value)
EventFilter(field, operator, value) ==
    [field |-> field, operator |-> operator, value |-> value,
     field_type |-> determine_field_type(field)]

\* lines 96-138: _parse_param_key; the operator of a key without a bracket
\* is eq, and a bracket that names no operator raises ValueError
parse_param_key(p) ==
    IF p.bracket = None THEN [ok |-> TRUE, field |-> p.path, operator |-> "eq"]
    ELSE [ok |-> p.bracket \in ValidOperators, field |-> p.path,
          operator |-> p.bracket]

\* line 88: filters[field] = filter_obj, a dict keyed by the field
FiltersPut(filters, f) ==
    IF \E j \in 1..Len(filters) : filters[j].field = f.field
    THEN [j \in 1..Len(filters) |->
             IF filters[j].field = f.field THEN f ELSE filters[j]]
    ELSE Append(filters, f)

\* lines 56-93: parse_filter_params; the filters in the order of the dict
RECURSIVE parse_filter_params(_)
parse_filter_params(query_params) ==
    IF query_params = <<>> THEN <<>>
    ELSE LET n == Len(query_params)
             p == query_params[n]
             filters == parse_filter_params(SubSeq(query_params, 1, n - 1))
             key == parse_param_key(p)
         IN  IF p.value = "" \/ ~key.ok THEN filters
             ELSE FiltersPut(filters, EventFilter(key.field, key.operator, p.value))

\* lines 353-375: _get_field_value; an attribute of the event, then keys of
\* the dict reached, None when a part is missing
get_field_value(e, path) ==
    IF path[1] \in {"payload", "metadata"}
    THEN IF Len(path) = 2 /\ path[2] \in DOMAIN e[path[1]]
         THEN e[path[1]][path[2]] ELSE PyNone
    ELSE IF path = <<"created_at">> THEN DateTime(e.created_at)
    ELSE IF path = <<"delivered_at">>
    THEN IF e.delivered_at = NoTime THEN PyNone ELSE DateTime(e.delivered_at)
    ELSE IF path = <<"event_type">> THEN Str(e.event_type)
    ELSE PyNone

\* an order comparison of two numbers
Ordered(op, x, y) ==
    CASE op = "gt" -> x > y
      [] op = "gte" -> x >= y
      [] op = "lt" -> x < y
      [] op = "lte" -> x <= y

Bool(b) == IF b THEN "true" ELSE "false"

\* lines 329-340: field_value <op> value, where value is the str of the
\* query: == and != of a str with a number or a datetime are False and
\* True, an order comparison of them raises TypeError
PyCompare(op, fv, text) ==
    IF op = "eq" THEN Bool(fv.t = "str" /\ fv.s = text)
    ELSE IF op = "ne" THEN Bool(~(fv.t = "str" /\ fv.s = text))
    ELSE IF fv.t = "str" THEN Bool(Ordered(op, StrRank(fv.s), StrRank(text)))
    ELSE "TypeError"

\* lines 308-350: _event_matches_filter
event_matches_filter(e, f) ==
    LET field_value == get_field_value(e, f.field)
    IN  IF field_value.t = "none" THEN "false"
        ELSE PyCompare(f.operator, field_value, f.value)

\* lines 291-305: _event_matches_filters; the first filter that does not
\* hold decides
event_matches_filters(e, filters) ==
    LET r == [j \in 1..Len(filters) |-> event_matches_filter(e, filters[j])]
        stops == {j \in 1..Len(filters) : r[j] # "true"}
    IN  IF stops = {} THEN "true"
        ELSE r[CHOOSE j \in stops : \A k \in stops : j <= k]

\* lines 265-288: apply_filters_to_events over the event ids p
apply_filters_to_events(st, p, filters) ==
    LET Matches(i) == event_matches_filters(st[i], filters) = "true"
    IN  IF \E j \in 1..Len(p) : event_matches_filters(st[p[j]], filters) = "TypeError"
        THEN [raised |-> TRUE, events |-> <<>>]
        ELSE [raised |-> FALSE, events |-> SelectSeq(p, Matches)]

\* storage/dynamodb.py lines 336-475: list_events with filters; more events
\* are fetched when a filter reads payload or metadata, the filters run in
\* memory and the result is cut to limit
list_events_filtered(st, status, limit, filters) ==
    LET has_json_filters ==
            \E j \in 1..Len(filters) : filters[j].field_type = "json"
        fetch_limit == IF has_json_filters THEN Min(limit * 3, 300) ELSE limit
    IN  {IF filters = <<>> THEN [raised |-> FALSE, events |-> p]
         ELSE LET r == apply_filters_to_events(st, p, filters)
              IN  [r EXCEPT !.events = Take(@, limit)] :
            p \in list_events(st, status, fetch_limit)}

\* handlers/events.py lines 1687-1776: list_events as one call; the record
\* of the call keeps the query parameters (request), the status filter and
\* the ids of the events returned (results)
ListEvents(queries, statuses, limits) ==
    \E params \in queries, status \in statuses, limit \in limits :
        /\ inflight = {}
        /\ UNCHANGED <<store, queue, nextId, clock, inflight>>
        /\ IF limit > MAX_LIST_LIMIT
           THEN last' = [PlainCall("list", NoId, None, 400, NoEffects)
                           EXCEPT !.request = params, !.filter = status]
           ELSE \E r \in list_events_filtered(
                            store, status, limit,
                            parse_filter_params(QueryDict(params))) :
                  last' = [PlainCall("list", NoId, None,
                                     IF r.raised THEN 500 ELSE 200, NoEffects)
                             EXCEPT !.request = params, !.filter = status,
                                    !.results = r.events]

\* the conditions of the listing queries: comparisons of the amount, of the
\* source and of the two timestamps, and the date aliases
AmountParams ==
    {Param(<<"payload", "amount">>, b, v) :
        b \in {None, "ne", "gt", "gte", "lt", "lte"}, v \in {"100", "99.99"}}
SourceParams ==
    {Param(<<"metadata", "source">>, b, v) :
        b \in {None, "gte", "lte"}, v \in {"api", "ecommerce"}}
DateParams ==
    {Param(<<f>>, b, "2024-01-15T00:00:00Z") :
        f \in {"created_at", "delivered_at"}, b \in {"gte", "lte"}}
    \cup {Param(<<f>>, None, "2024-01-15T00:00:00Z") :
            f \in {"created_after", "created_before", "delivered_after",
                   "delivered_before"}}
ListParams ==
    AmountParams \cup SourceParams \cup DateParams
    \cup {Param(<<"metadata", "source">>, "between", "api")}

\* queries of one condition, and of two
ListQueries ==
    {<<p>> : p \in ListParams}
    \cup {<<p, q>> : p \in AmountParams \cup SourceParams,
                     q \in AmountParams \cup SourceParams}

\* the table holds the sample events
InitListing ==
    /\ store = SampleEvents
    /\ queue = EmptyBag
    /\ nextId = Len(SampleEvents) + 1
    /\ clock = 1
    /\ last = NoCall
    /\ inflight = {}

\* the single-event handlers over one event
Next ==
    \/ Create(MaxEvents, MaybeKeys, Metas)
    \/ Update(UpdateRequests)
    \/ Delete
    \/ Acknowledge
    \/ Replay(MaxAttempts, Workflows, {None})

Spec == Init /\ [][Next]_vars

\* the ingestion paths over two events: every handler that writes an
\* idempotency key
NextIngest ==
    \/ Create(MaxIngest, MaybeKeys, {NoMeta})
    \/ BatchCreate(MaxIngest, BatchCreateItems, FALSE, MAX_BATCH_SIZE)
    \/ Update(KeyRequests)
    \/ BatchUpdate(KeyUpdateItems, KeyTemplates, MAX_BATCH_SIZE)

SpecIngest == Init /\ [][NextIngest]_vars

\* sequential create requests over two events, with time passing
NextCreate ==
    \/ Create(MaxIngest, MaybeKeys, {NoMeta})
    \/ Tick

SpecCreate == Init /\ [][NextCreate]_vars

\* create requests that overlap
NextRace ==
    \/ CreateCheck(MaxIngest, MaybeKeys, {NoMeta})
    \/ CreateFinish

SpecRace == Init /\ [][NextRace]_vars

\* deletion over two events, with time passing
NextDelete ==
    \/ Create(MaxIngest, {None}, {NoMeta})
    \/ Delete
    \/ BatchDelete(BodyIds, MAX_BATCH_SIZE)
    \/ Tick

SpecDelete == Init /\ [][NextDelete]_vars

\* an event replayed one call at a time up to the replay ceiling and beyond
NextReplay ==
    \/ Create(MaxEvents, {None}, {NoMeta})
    \/ Replay(MAX_REPLAY_ATTEMPTS + 1, {None}, {None})
    \/ BatchReplay(MAX_REPLAY_ATTEMPTS + 1, BodyIds, MAX_BATCH_SIZE)

SpecReplay == Init /\ [][NextReplay]_vars

\* updates of one event in every status a run reaches
NextUpdate ==
    \/ Create(MaxEvents, {None}, {NoMeta})
    \/ Replay(MaxReplays, {None}, {None})
    \/ Update(UpdateRequests)
    \/ BatchUpdate(BatchUpdateItems, BatchTemplates, MAX_BATCH_SIZE)

SpecUpdate == Init /\ [][NextUpdate]_vars

\* update, delete and replay, single and batch, of one event by any caller
NextOwner ==
    \/ Create(MaxEvents, {None}, {NoMeta})
    \/ Update(PayloadRequests)
    \/ Delete
    \/ Replay(MaxReplays, {None}, MaybeUsers)
    \/ BatchUpdate(PayloadUpdateItems, PayloadTemplates, MAX_BATCH_SIZE)
    \/ BatchDelete(BodyIds, MAX_BATCH_SIZE)
    \/ BatchReplay(MaxReplays, BodyIds, MAX_BATCH_SIZE)

SpecOwner == Init /\ [][NextOwner]_vars

\* update and delete, single and batch, over two events of any owners
NextBatch ==
    \/ Create(MaxIngest, {None}, {NoMeta})
    \/ Update(PayloadRequests)
    \/ Delete
    \/ BatchUpdate(PayloadUpdateItems, PayloadTemplates, MAX_BATCH_SIZE)
    \/ BatchDelete(BodyIds, MAX_BATCH_SIZE)

SpecBatch == Init /\ [][NextBatch]_vars

\* batch create with items that fail validation or storage
NextPartial ==
    \/ BatchCreate(MaxIngest, PartialCreateItems, TRUE, MAX_BATCH_SIZE)
    \/ Tick

SpecPartial == Init /\ [][NextPartial]_vars

\* the batch handlers that take a list of event ids, of which one is stored
NextList ==
    \/ Create(MaxEvents, {None}, {NoMeta})
    \/ BatchUpdate(RepeatedUpdateItems, PayloadTemplates, MAX_BATCH_SIZE)
    \/ BatchDelete(BodyIdLists, MAX_BATCH_SIZE)
    \/ BatchReplay(MaxReplays, BodyIdLists, MAX_BATCH_SIZE)

SpecList == Init /\ [][NextList]_vars

\* requests at and above the batch limit: event lists of one and of two
\* events, event_ids lists of none, one and two ids
CapCreateItems ==
    LET A == BatchCreateItem(None, None, "order.created", "p1", NoMeta)
    IN  {<<A>>, <<A, A>>}

CapUpdateItems ==
    LET A == BatchUpdateItem(1, UpdateFields({"payload"}, "p2", NoMeta, None))
        M == BatchUpdateItem(2, UpdateFields({"payload"}, "p2", NoMeta, None))
    IN  {<<A>>, <<A, M>>}

CapBodies == {<<>>, <<1>>, <<2>>, <<1, 2>>}

\* the batch handlers under a batch limit that two ids exceed
NextCap ==
    \/ Create(MaxEvents, {None}, {NoMeta})
    \/ BatchCreate(MaxEvents, CapCreateItems, FALSE, BatchCap)
    \/ BatchUpdate(CapUpdateItems, PayloadTemplates, BatchCap)
    \/ BatchDelete(CapBodies, BatchCap)
    \/ BatchReplay(MaxReplays, CapBodies, BatchCap)

SpecCap == Init /\ [][NextCap]_vars

\* filter mode: one template, next to a list that changes nothing and to
\* bodies that name the first event or none
FilterTemplates ==
    {UpdateFields({"payload", "metadata", "idempotency_key"}, "p1", NoMeta, None)}

FilterUpdateItems ==
    {<<BatchUpdateItem(1, UpdateFields({}, None, NoMeta, None))>>}

FilterBodies == {<<>>, <<1>>}

\* the batch handlers in filter mode over two events of any owners
NextFilter ==
    \/ Create(MaxIngest, {None}, {NoMeta})
    \/ BatchUpdate(FilterUpdateItems, FilterTemplates, MAX_BATCH_SIZE)
    \/ BatchDelete(FilterBodies, MAX_BATCH_SIZE)
    \/ BatchReplay(MaxReplays, FilterBodies, MAX_BATCH_SIZE)

SpecFilter == Init /\ [][NextFilter]_vars

\* the queue worker next to the handlers that fill the queue and delete
\* events
NextWorker ==
    \/ Create(MaxIngest, {None}, {NoMeta})
    \/ Delete
    \/ Worker

SpecWorker == Init /\ [][NextWorker]_vars

\* the queue worker next to updates of queued events: the message of an
\* event keeps the payload the event had when it was queued
NextStale ==
    \/ Create(MaxEvents, {None}, {NoMeta})
    \/ Update(UpdateRequests)
    \/ Worker
    \/ Tick

SpecStale == Init /\ [][NextStale]_vars

\* every call that writes the status of an event, over one event
NextStatus ==
    \/ Create(MaxEvents, {None}, {NoMeta})
    \/ BatchCreate(MaxEvents, CapCreateItems, FALSE, MAX_BATCH_SIZE)
    \/ Update(PayloadRequests)
    \/ Delete
    \/ Acknowledge
    \/ Replay(MaxReplays, {None}, {None})
    \/ Worker

SpecStatus == Init /\ [][NextStatus]_vars

\* the item lists of one item, one for each request body of UpdateRequests
FieldUpdateItems == {<<BatchUpdateItem(1, r)>> : r \in UpdateRequests}

\* updates of an event that has metadata and an idempotency key, by every
\* kind of request body: one field set or cleared, none, all three
NextFields ==
    \/ Create(MaxEvents, Keys, {BaseMeta})
    \/ Update(UpdateRequests)
    \/ BatchUpdate(FieldUpdateItems,
                   {TemplateFields(r) : r \in UpdateRequests}, MAX_BATCH_SIZE)

SpecFields == Init /\ [][NextFields]_vars

\* the request body of the overlapping updates: a new payload
PayloadRequest == UpdateFields({"payload"}, "p2", NoMeta, None)

\* requests on one event that overlap: each handler's read and write are
\* steps of their own, and deletes and worker invocations run in between
NextOverlap ==
    \/ Create(MaxEvents, {None}, {NoMeta})
    \/ ReadEvent({"update", "acknowledge", "replay"}, {PayloadRequest},
                 MaxReplays)
    \/ UpdateSend
    \/ WriteBack
    \/ DeleteRequest
    \/ WorkerRecord

SpecOverlap == Init /\ [][NextOverlap]_vars

\* overlapping requests on an event that stays stored, as time passes
NextIdentity ==
    \/ Create(MaxEvents, {None}, {NoMeta})
    \/ ReadEvent({"update", "acknowledge", "replay"}, {PayloadRequest},
                 MaxReplays)
    \/ UpdateSend
    \/ WriteBack
    \/ WorkerRecord
    \/ Tick

SpecIdentity == Init /\ [][NextIdentity]_vars

\* the worker next to create and delete, with the event source mapping of
\* the queue invoking the worker as long as a message is queued (weak
\* fairness of Worker).  A message the worker reports stays on the queue for
\* the redeliveries of the queue, up to its dead-letter threshold.
SpecLive == Init /\ [][NextWorker]_vars /\ WF_vars(Worker)

\* retry_delivery with the logger of the module
NextRetry ==
    \/ RetryDelivery({logger})

\* the life of one event: every handler and the worker that deliver it or
\* change its status
NextLifecycle ==
    \/ Create(MaxEvents, {None}, {NoMeta})
    \/ Update(PayloadRequests)
    \/ Acknowledge
    \/ Replay(MaxAttempts, {None}, {None})
    \/ Worker
    \/ Tick

SpecLifecycle == Init /\ [][NextLifecycle]_vars

SpecRetry == Init /\ [][NextRetry]_vars

\* the listing over the sample events
NextListing ==
    \/ ListEvents(ListQueries, {None, "pending"}, {DEFAULT_LIMIT, MAX_LIST_LIMIT + 1})

SpecListing == InitListing /\ [][NextListing]_vars

(***************************************************************************)
(* Properties                                                              *)
(***************************************************************************)
\* two stored events of one owner under one idempotency key
SamePair(a, b) ==
    /\ a.user_id # None /\ a.idempotency_key # None
    /\ a.user_id = b.user_id /\ a.idempotency_key = b.idempotency_key

UniquePairs(st) ==
    \A i, j \in DOMAIN st : i # j => ~SamePair(st[i], st[j])

Occurrences(seq, x) == Cardinality({i \in 1..Len(seq) : seq[i] = x})

\* C1: of sequential create requests with the same non-null owner and the
\* same idempotency key exactly one event is stored; the later request
\* answers 200 "already exists" with the stored event's id, writes nothing,
\* delivers nothing, enqueues nothing and leaves delivery_attempts as it was.
C1_SequentialCreateIsIdempotent ==
    [][last'.op = "create" =>
         /\ UniquePairs(store')
         /\ last'.code = 200 =>
              /\ last'.id \in DOMAIN store
              /\ store' = store /\ queue' = queue
              /\ last'.writes = 0 /\ last'.delivers = <<>> /\ last'.sends = <<>>
              /\ last'.attempts = store[last'.id].delivery_attempts
              /\ store'[last'.id].delivery_attempts
                   = store[last'.id].delivery_attempts
              /\ Cardinality({i \in DOMAIN store' :
                                SamePair(store'[i], store'[last'.id])}) = 1]_vars

C1_Witness ==
    /\ last.op = "create" /\ last.code = 200
    /\ last.id \in DOMAIN store
    /\ store[last.id].user_id # None
    /\ Cardinality(DOMAIN store) = 1

\* C2: whatever sequence of create, batch create, update and batch update
\* (list mode and filter mode) has run, no two stored events share a
\* non-null (owner, idempotency key).
C2_UniqueIdempotencyPairs == UniquePairs(store)

\* C3: two overlapping create requests with the same (owner, idempotency
\* key) both pass the lookup and both persist: every request that passed the
\* lookup stores a new event under its owner and key, whatever the store
\* holds by then.
C3_OverlappingCreatesBothPersist ==
    [][\A r \in inflight :
          inflight' = inflight \ {r} =>
             /\ last'.op = "create" /\ last'.code = 201
             /\ last'.id \notin DOMAIN store
             /\ last'.id \in DOMAIN store'
             /\ store'[last'.id].user_id = r.uid
             /\ store'[last'.id].idempotency_key = r.key]_vars

C3_Witness ==
    \E i, j \in DOMAIN store : i # j /\ SamePair(store[i], store[j])

\* C4: a create whose delivery returns false answers 201 with status pending
\* and delivered_at null, leaves the stored event pending, and invokes the
\* queue send exactly once, with the full event, whatever the send's outcome.
C4_FailedPushQueuesOnce ==
    (last.op = "create" /\ last.code = 201 /\ last.delivers # <<>> /\ last.oks = <<>>)
    => /\ last.status = "pending" /\ last.delivered_at = NoTime
       /\ last.id \in DOMAIN store => store[last.id].status = "pending"
       /\ Len(last.sends) = 1
       /\ last.body.event_id = last.id

C6_DeliveryFailureIsNoError ==
    (/\ last.op \in {"create", "update", "replay"}
     /\ \/ last.delivers # <<>> /\ last.oks = <<>>
        \/ Len(last.sends) > last.sent)
    => /\ last.code \in {200, 201}
       /\ last.status = "pending"
       /\ last.id \in DOMAIN store => store[last.id].status = "pending"

\* the effect of an update on the stored event id, by its status before
C7_Redelivery(id) ==
    IF store[id].status \in {"delivered", "replayed"}
    THEN /\ store'[id].status = "pending"
         /\ store'[id].delivered_at = NoTime
         /\ Occurrences(last'.sends, id) = 1
    ELSE /\ store'[id].status = store[id].status
         /\ Occurrences(last'.sends, id) = 0

\* C7: a single or batch update of an event stored delivered or replayed
\* sets it pending with delivered_at null and hands it to the queue exactly
\* once; an update of a pending or failed event keeps its status and
\* enqueues nothing.
C7_UpdateRedelivers ==
    [][/\ (last'.op = "update" /\ last'.code = 200) =>
            /\ C7_Redelivery(last'.id)
            /\ last'.sends = <<>> => queue' = queue
       /\ last'.op = "batch_update" =>
            /\ \A i \in 1..Len(last'.results) :
                 last'.results[i].success =>
                    C7_Redelivery(last'.results[i].event_id)
            /\ last'.sends = <<>> => queue' = queue]_vars

C7_Witness ==
    /\ last.op = "batch_update"
    /\ last.sends # <<>>
    /\ \E i \in 1..Len(last.results) :
         /\ last.results[i].success
         /\ last.results[i].status = "pending"
         /\ last.results[i].event_id \in Range(last.sends)

\* C8: the delete of an absent id answers success and changes neither the
\* store nor the queue, however often it is repeated; a batch delete of an
\* absent id gives a success result marked idempotent.
C8_DeleteAbsentIsIdempotent ==
    [][/\ (last'.op = "delete" /\ last'.id \notin DOMAIN store) =>
            /\ last'.code = 204
            /\ store' = store /\ queue' = queue
            /\ last'.writes = 0
       /\ (last'.op = "batch_delete" /\ last'.code = 200) =>
            /\ queue' = queue
            /\ \A i \in 1..Len(last'.results) :
                 last'.results[i].event_id \notin DOMAIN store =>
                    /\ last'.results[i].success
                    /\ IsIdempotent(last'.results[i])
            /\ last'.summary.idempotent =
                 Cardinality({i \in 1..Len(last'.results) :
                                last'.results[i].event_id \notin DOMAIN store})
            /\ (\A i \in 1..Len(last'.results) :
                  last'.results[i].event_id \notin DOMAIN store) => store' = store]_vars

C8_Witness ==
    /\ last.op = "batch_delete"
    /\ DOMAIN store # {}
    /\ \E i \in 1..Len(last.results) :
         /\ IsIdempotent(last.results[i])
         /\ last.results[i].event_id \notin DOMAIN store

RejectedCodes == {400, 403, 404}

RejectedItemCodes ==
    {"VALIDATION_ERROR", "NOT_FOUND", "FORBIDDEN", "MAX_ATTEMPTS_EXCEEDED"}

\* the ids of a batch response all of whose items were rejected
RejectedIds(results) ==
    {id \in Ids :
        /\ \E i \in 1..Len(results) : results[i].event_id = id
        /\ \A i \in 1..Len(results) :
              results[i].event_id = id =>
                 ~results[i].success /\ results[i].code \in RejectedItemCodes}

\* the caller is resolved and is not the event's non-null owner
ForeignCaller(caller, e) ==
    caller # None /\ e.user_id # None /\ e.user_id # caller

NoOwnership(caller, e) == e.user_id = None \/ caller = None

\* C12: an update or delete (single, or one item of a batch) of an event
\* stored without owner, or by an unresolved caller, is never rejected as
\* forbidden, whoever the caller is.
C12_OwnerlessSkipsCheck ==
    [][/\ (/\ last'.op \in {"update", "delete"} /\ last'.id \in DOMAIN store
           /\ NoOwnership(last'.caller, store[last'.id])) =>
            last'.code # 403
       /\ last'.op \in {"batch_update", "batch_delete"} =>
            \A i \in 1..Len(last'.results) :
               LET id == last'.results[i].event_id
               IN  (id \in DOMAIN store
                    /\ NoOwnership(last'.caller, store[id])) =>
                      last'.results[i].code # "FORBIDDEN"]_vars

\* C13: the replay (single, or one item of a batch) of an event by a
\* resolved caller that is not its non-null owner is rejected as forbidden
\* and neither delivers, enqueues nor changes the event.
C13_ReplayByForeignCallerIsForbidden ==
    [][/\ (/\ last'.op = "replay" /\ last'.id \in DOMAIN store
           /\ ForeignCaller(last'.caller, store[last'.id])) =>
            /\ last'.code = 403
            /\ last'.delivers = <<>> /\ last'.sends = <<>>
            /\ store' = store /\ queue' = queue
       /\ last'.op = "batch_replay" =>
            \A i \in 1..Len(last'.results) :
               LET id == last'.results[i].event_id
               IN  (id \in DOMAIN store
                    /\ ForeignCaller(last'.caller, store[id])) =>
                      /\ ~last'.results[i].success
                      /\ last'.results[i].code = "FORBIDDEN"
                      /\ id \notin Range(last'.delivers)
                      /\ id \notin Range(last'.sends)
                      /\ store'[id] = store[id]]_vars

\* a result of batch create that stands for an event stored by the call
IsCreated(r) ==
    r.success /\ r.msg # "Event already exists with this idempotency key"

ListMode(call) ==
    /\ call.code = 200
    /\ call.op \in {"batch_update", "batch_delete", "batch_replay"}
    /\ call.filter = None

\* C15: in list-mode batch update, batch delete and batch replay the k-th
\* item of the request list, also when its id occurs more than once, has
\* exactly one result, the k-th, whose index is k - 1.
C15_OneResultPerListItem ==
    ListMode(last) =>
       /\ Len(last.results) = Len(last.request)
       /\ \A k \in 1..Len(last.request) :
             /\ k <= Len(last.results)
             /\ last.results[k].index = k - 1
             /\ last.results[k].event_id = last.request[k]

BatchOps == {"batch_create", "batch_update", "batch_delete", "batch_replay"}

\* a result that matched an existing record without net change: a create
\* that found its idempotency key, a delete of an absent id
IsNoChange(r) == r.success /\ (IsIdempotent(r) \/ ~IsCreated(r))

\* C16: in every batch response total = successful + idempotent + failed,
\* successful counts the results of newly affected items only, idempotent
\* the create-dedup matches and the deletes of absent ids, failed the
\* results without success.
C16_SummaryAddsUp ==
    (last.op \in BatchOps /\ last.code \in {200, 201}) =>
       LET rs == last.results
           sm == last.summary
       IN  /\ sm.total = sm.successful + sm.idempotent + sm.failed
           /\ sm.failed = Len(rs) - Successes(rs)
           /\ sm.idempotent =
                 Cardinality({i \in 1..Len(rs) : IsNoChange(rs[i])})
           /\ sm.successful =
                 Cardinality({i \in 1..Len(rs) :
                                rs[i].success /\ ~IsNoChange(rs[i])})

\* the stored events of the status the call filters by that the caller owns
FilterMatches(call, st) ==
    IF call.filter = None THEN {}
    ELSE {i \in DOMAIN st :
            st[i].status = call.filter /\ ~NotOwner(call.caller, st[i])}

\* the number of items a batch call addresses: the events of the list, the
\* matches of the filter, or the ids of the body joined with the matches
Addressed(call, st) ==
    CASE call.op = "batch_create" -> Len(call.items)
      [] call.op = "batch_update" ->
           IF call.filter = None THEN Len(call.request)
           ELSE Cardinality(FilterMatches(call, st))
      [] OTHER -> Cardinality(Range(call.request) \cup FilterMatches(call, st))

\* C17: a batch create, update, delete or replay call that addresses more
\* items than the batch limit is rejected with a validation error and
\* changes neither the store nor the queue.
C17_OversizeBatchIsRejected ==
    [][(last'.op \in BatchOps /\ Addressed(last', store) > BatchCap) =>
         /\ last'.code \in {400, 422}
         /\ store' = store /\ queue' = queue
         /\ last'.results = <<>>]_vars

\* C18: in a filter-mode batch update, delete or replay by a resolved
\* caller, a stored event of the filtered status that the caller does not
\* own stays as it is, is neither POSTed to the webhook nor handed to the
\* queue, and (unless the body names its id) has no result record.
C18_FilterSkipsForeignEvents ==
    [][(/\ last'.op \in {"batch_update", "batch_delete", "batch_replay"}
        /\ last'.filter # None /\ last'.caller # None) =>
          \A id \in DOMAIN store :
             (store[id].status = last'.filter
              /\ store[id].user_id # last'.caller) =>
                /\ id \in DOMAIN store' /\ store'[id] = store[id]
                /\ id \notin Range(last'.delivers)
                /\ id \notin Range(last'.sends)
                /\ id \notin Range(last'.request) =>
                      \A i \in 1..Len(last'.results) :
                         last'.results[i].event_id # id]_vars

\* a filter-mode batch delete that deleted the caller's event and left a
\* matching event of another owner
C18_Witness ==
    /\ last.op = "batch_delete" /\ last.filter # None /\ last.caller # None
    /\ \E i \in 1..Len(last.results) : last.results[i].msg = "Event deleted"
    /\ \E id \in DOMAIN store :
         /\ store[id].status = last.filter
         /\ store[id].user_id \notin {None, last.caller}
         /\ \A i \in 1..Len(last.results) : last.results[i].event_id # id

\* C19: the worker, given a message whose event is not stored, makes no
\* delivery attempt and no store write and does not report the message in
\* batchItemFailures.
C19_OrphanedMessageIsDropped ==
    [][(last'.op = "worker" /\ last'.id \notin DOMAIN store) =>
         /\ last'.delivers = <<>>
         /\ last'.writes = 0 /\ store' = store
         /\ last'.failures = <<>>]_vars

\* C20: the worker, given a message whose event is stored, makes exactly
\* one delivery attempt; on success it stores the event delivered with
\* delivered_at set and delivery_attempts + 1 and does not report the
\* message; on failure it stores delivery_attempts + 1 with the status
\* unchanged and reports the message.
C20_WorkerDeliversOnce ==
    [][(last'.op = "worker" /\ last'.id \in DOMAIN store) =>
         LET id == last'.id
         IN  /\ last'.delivers = <<id>>
             /\ id \in DOMAIN store'
             /\ store'[id].delivery_attempts = store[id].delivery_attempts + 1
             /\ IF last'.oks # <<>>
                THEN /\ store'[id].status = "delivered"
                     /\ store'[id].delivered_at # NoTime
                     /\ last'.failures = <<>>
                ELSE /\ store'[id].status = store[id].status
                     /\ last'.failures = <<id>>]_vars

\* a message on the queue carries a copy of event id that an update has
\* since replaced in the store
StaleMessage(id) ==
    \E m \in BagToSet(queue) :
        m.event_id = id /\ id \in DOMAIN store /\ m # Message(store[id])

\* C21: when the worker handles a message of a stored event that an update
\* has changed since the message was queued, it delivers the event as it is
\* stored, not the copy of the message, and its write-back keeps the updated
\* payload and metadata.
C21_WorkerUsesStoredEvent ==
    [][(last'.op = "worker" /\ StaleMessage(last'.id)) =>
         LET id == last'.id
         IN  /\ last'.delivers = <<id>>
             /\ last'.body = Message(store[id])
             /\ last'.writes = 1
             /\ id \in DOMAIN store'
             /\ store'[id].payload = store[id].payload
             /\ store'[id].metadata = store[id].metadata]_vars

\* the first call of the delivery function that returns True, when every
\* call before it fails in a way that is retried; 0 when there is none
\* among the first RETRY_ATTEMPTS calls
FirstTrue(outcomes) ==
    LET ks == {k \in 1..RETRY_ATTEMPTS :
                 /\ outcomes[k] = "true"
                 /\ \A j \in 1..(k - 1) : Retried(outcomes[j])}
    IN  IF ks = {} THEN 0 ELSE CHOOSE k \in ks : TRUE

\* C22: retry_delivery calls the delivery function at most 5 times; it
\* returns true at the first call that returns true, making no further
\* call, and when every call fails it returns false after exactly 5 calls.
C22_RetryMakesAtMostFiveCalls ==
    [][last'.op = "retry_delivery" =>
         LET outcomes == last'.request
             calls == Len(last'.delivers)
         IN  /\ calls <= RETRY_ATTEMPTS
             /\ FirstTrue(outcomes) # 0 =>
                   last'.msg = "true" /\ calls = FirstTrue(outcomes)
             /\ (\A k \in 1..RETRY_ATTEMPTS : Retried(outcomes[k])) =>
                   last'.msg = "false" /\ calls = RETRY_ATTEMPTS]_vars

\* the number and the time the texts of the queries stand for; 0 for a
\* text that is neither
NumberOf == [s \in Range(Texts) |->
               IF s = "100" THEN 10000 ELSE IF s = "99.99" THEN 9999 ELSE 0]
DateOf == [s \in Range(Texts) |-> IF s = "2024-01-15T00:00:00Z" THEN 2 ELSE 0]

\* the comparison a condition stands for: the text of the query is read as
\* a value of the type of the field (a number, a time, or the string itself)
TypedCompare(op, fv, text) ==
    LET x == IF fv.t = "str" THEN StrRank(fv.s) ELSE fv.n
        y == IF fv.t = "str" THEN StrRank(text)
             ELSE IF fv.t = "num" THEN NumberOf[text] ELSE DateOf[text]
    IN  IF op = "eq" THEN x = y
        ELSE IF op = "ne" THEN x # y
        ELSE Ordered(op, x, y)

\* the operator of a query parameter
OperatorOf(p) == IF p.bracket = None THEN "eq" ELSE p.bracket

\* the stored events a listing with the status filter of the call looks at
Listed(call) ==
    {i \in DOMAIN store : call.filter = None \/ store[i].status = call.filter}

\* event i satisfies the condition p, the text of p read as a value of the
\* type of the field
Satisfies(i, p) ==
    LET fv == get_field_value(store[i], p.path)
    IN  /\ fv.t # "none"
        /\ TypedCompare(OperatorOf(p), fv, p.value)

\* C23: a listing with one comparison condition (eq, ne, gt, gte, lt, lte)
\* on the numeric field payload.amount answers 200 with exactly the listed
\* events whose amount satisfies the comparison with the number the text of
\* the query stands for; payload.amount[gte]=100 over the amounts 99.99,
\* 150.00 and 75.50 returns the event with 150.00 only.
C23_NumericComparisonSelects ==
    (/\ last.op = "list" /\ last.code # 400
     /\ Len(last.request) = 1 /\ last.request[1] \in AmountParams)
    => /\ last.code = 200
       /\ Range(last.results) =
             {i \in Listed(last) : Satisfies(i, last.request[1])}

\* no two parameters of the query have the same key (field and operator)
DistinctKeys(params) ==
    \A j, k \in 1..Len(params) :
        (params[j].path = params[k].path /\ params[j].bracket = params[k].bracket)
            => j = k

\* C24: a listing returns an event only if the event satisfies every
\* condition of the query, two conditions on one field with different
\* operators included (stated for conditions on the string field
\* metadata.source, which the listing compares as strings).
C24_EveryConditionHolds ==
    (/\ last.op = "list" /\ last.code = 200
     /\ DistinctKeys(last.request)
     /\ \A j \in 1..Len(last.request) : last.request[j] \in SourceParams)
    => \A i \in Range(last.results) :
          \A j \in 1..Len(last.request) : Satisfies(i, last.request[j])

\* the timestamp and the comparison a date condition stands for: an alias
\* names its field and its direction
DateCondition(p) ==
    CASE p.path = <<"created_after">> -> Param(<<"created_at">>, "gte", p.value)
      [] p.path = <<"created_before">> -> Param(<<"created_at">>, "lte", p.value)
      [] p.path = <<"delivered_after">> -> Param(<<"delivered_at">>, "gte", p.value)
      [] p.path = <<"delivered_before">> -> Param(<<"delivered_at">>, "lte", p.value)
      [] OTHER -> p

\* C25: a listing with one date condition (created_at or delivered_at with
\* an operator, or an alias created_after, created_before, delivered_after,
\* delivered_before) and an ISO-8601 value answers 200 with exactly the
\* listed events whose timestamp satisfies the comparison; created_after=T
\* returns the events created at or after T and no others.
C25_DateConditionSelects ==
    (/\ last.op = "list" /\ last.code # 400
     /\ Len(last.request) = 1 /\ last.request[1] \in DateParams)
    => /\ last.code = 200
       /\ Range(last.results) =
             {i \in Listed(last) : Satisfies(i, DateCondition(last.request[1]))}

\* C26: acknowledge of a stored event, whatever its status, stores it with
\* status delivered and a delivered_at; acknowledge of an id that is not
\* stored answers 404 and writes nothing.
C26_AcknowledgeMarksDelivered ==
    [][last'.op = "acknowledge" =>
         IF last'.id \in DOMAIN store
         THEN /\ last'.code = 204
              /\ last'.id \in DOMAIN store'
              /\ store'[last'.id].status = "delivered"
              /\ store'[last'.id].delivered_at # NoTime
         ELSE /\ last'.code = 404
              /\ last'.writes = 0
              /\ store' = store /\ queue' = queue]_vars

\* an event that no delivery attempt has reached (pending, never
\* delivered) has been acknowledged
C26_Witness ==
    /\ last.op = "acknowledge" /\ last.code = 204
    /\ last.id \in DOMAIN store
    /\ store[last.id].status = "delivered"
    /\ store[last.id].delivery_attempts = 0

\* C27: acknowledge of a stored event stores it with delivery_attempts
\* increased by one (0 becomes 1 for a pending event never attempted).
C27_AcknowledgeCountsAnAttempt ==
    [][(last'.op = "acknowledge" /\ last'.id \in DOMAIN store) =>
         /\ last'.id \in DOMAIN store'
         /\ store'[last'.id].delivery_attempts =
               store[last'.id].delivery_attempts + 1]_vars

\* C28: the stored delivery_attempts of an event counts the delivery
\* attempts made for it: every call of create, replay or the worker raises
\* it by the number of attempts the call made, failed ones included (a
\* create whose push fails stores 1), and no other call changes it.
C28_AttemptsCountDeliveries ==
    [][\A id \in DOMAIN store' :
          store'[id].delivery_attempts =
              (IF id \in DOMAIN store THEN store[id].delivery_attempts ELSE 0)
              + Occurrences(last'.delivers, id)]_vars

\* C29: in every reachable state a stored event that is pending has no
\* delivered_at, and one that is delivered or replayed has a delivered_at
\* (so every call that makes an event pending, update redelivery and failed
\* replay included, clears delivered_at).
C29_DeliveredAtFollowsStatus ==
    \A id \in DOMAIN store :
        /\ store[id].status = "pending" => store[id].delivered_at = NoTime
        /\ store[id].status \in {"delivered", "replayed"} =>
              store[id].delivered_at # NoTime

\* the status of event id before and after the call that wrote it
StatusChange(id) == <<store[id].status, store'[id].status>>

\* the call of this step wrote the stored event id
Wrote(id) ==
    /\ id \in DOMAIN store /\ id \in DOMAIN store'
    /\ last'.id = id /\ last'.writes > 0
    /\ last'.op \in {"create", "update", "replay", "acknowledge", "worker"}

ListedTransitions ==
    {<<"pending", "delivered">>, <<"pending", "pending">>,
     <<"delivered", "pending">>, <<"delivered", "replayed">>,
     <<"pending", "replayed">>, <<"replayed", "pending">>}

\* acknowledge of a replayed or delivered event, and a successful replay of
\* a replayed event
UnlistedTransitions ==
    {<<"replayed", "delivered">>, <<"delivered", "delivered">>,
     <<"replayed", "replayed">>}

\* C30 as stated: every before/after status of a stored event written by
\* create, update, replay, acknowledge or the worker is one of
\* pending->delivered, pending->pending, delivered->pending,
\* delivered->replayed, pending->replayed, replayed->pending.
C30_OnlyListedTransitions ==
    [][\A id \in Ids : Wrote(id) => StatusChange(id) \in ListedTransitions]_vars

\* C30, amended: every before/after status of a stored event written by
\* create, update, replay, acknowledge or the worker is one of the six
\* listed transitions or one of replayed->delivered, delivered->delivered
\* (acknowledge) and replayed->replayed (successful replay); the status
\* failed is never stored.
C30_StatusTransitions ==
    [][\A id \in Ids :
          Wrote(id) =>
              StatusChange(id) \in ListedTransitions \cup UnlistedTransitions]_vars

\* an event that was replayed successfully has been acknowledged
C30_Witness ==
    /\ last.op = "acknowledge" /\ last.code = 204
    /\ last.id \in DOMAIN store
    /\ store[last.id].status = "delivered"
    /\ "original_status" \in DOMAIN store[last.id].metadata
    /\ store[last.id].delivery_attempts > 0

\* C31: no sequence of create, batch create, update, delete, acknowledge,
\* replay and worker calls from the empty store leaves a stored event with
\* status failed.
C31_NeverFailed ==
    \A id \in DOMAIN store : store[id].status # "failed"

\* a delivery has failed (a replay, after which the event waits on the
\* queue) and the event is stored pending
C31_Witness ==
    /\ last.op = "replay" /\ last.delivers # <<>> /\ last.oks = <<>>
    /\ last.id \in DOMAIN store
    /\ store[last.id].status = "pending"
    /\ store[last.id].delivery_attempts > 0


\* C32: once delete(id) has answered 200 the id stays absent from the store,
\* also when a request that read the event before the delete writes after
\* it.  Ids are allocated by create, which stores the event in the same
\* step, and only a delete that answers 200 removes an event: an allocated
\* id that is absent was deleted.
C32_DeletedStaysAbsent ==
    [][\A id \in 1..(nextId - 1) :
          id \notin DOMAIN store => id \notin DOMAIN store']_vars

\* C33: the stored delivery_attempts of an event never decreases from one
\* state to the next, whatever the interleaving of the requests on it.
C33_AttemptsNeverDecrease ==
    [][\A id \in DOMAIN store \cap DOMAIN store' :
          store'[id].delivery_attempts >= store[id].delivery_attempts]_vars

\* an event stored pending that no queued message names
PendingUnqueued(id) ==
    /\ id \in DOMAIN store
    /\ store[id].status = "pending"
    /\ \A m \in BagToSet(queue) : m.event_id # id

\* C34: with the worker invoked as long as messages are queued, no event
\* accepted by create stays pending for ever with no message left in the
\* queue: it is delivered, deleted, or has a message that the queue
\* redelivers up to the dead-letter threshold.
C34_NoPendingWithoutMessage ==
    \A id \in Ids : []<>~PendingUnqueued(id)

\* C35: when update of a delivered or replayed event has answered 200 and
\* put its redelivery message on the queue, the worker that takes the
\* message processes it against the updated event: it delivers the event as
\* stored by the update.
C35_RedeliveryUsesUpdatedEvent ==
    [][(/\ last.op = "update"
        /\ last.code = 200
        /\ last.sent = 1
        /\ last.id \in DOMAIN store
        /\ last'.op = "worker"
        /\ last'.id = last.id)
       => /\ last'.delivers = <<last.id>>
          /\ last'.body = Message(store[last.id])]_vars

\* the fields the request leaves out keep the value of e in e2
Kept(e, e2, req) ==
    /\ "payload" \notin req.provided => e2.payload = e.payload
    /\ "metadata" \notin req.provided => e2.metadata = e.metadata
    /\ "idempotency_key" \notin req.provided
          => e2.idempotency_key = e.idempotency_key

\* the fields the request names have its value in e2 (null clears)
Taken(e2, req) ==
    /\ "payload" \in req.provided => e2.payload = req.payload
    /\ "metadata" \in req.provided => e2.metadata = req.metadata
    /\ "idempotency_key" \in req.provided
          => e2.idempotency_key = req.idempotency_key

\* every other field, and every other event, is as before
OnlyFieldsOf(id, req) ==
    /\ DOMAIN store' = DOMAIN store
    /\ Kept(store[id], store'[id], req)
    /\ Taken(store'[id], req)

\* C36: an update changes exactly the fields present in the request: single
\* update and list-mode batch update that succeed leave the absent fields
\* as stored and give the present ones the request's value (null clears
\* metadata and idempotency_key); filter-mode batch update leaves the
\* fields absent from the template unchanged on every event.
C36_UpdateChangesPresentFields ==
    [][\A req \in UpdateRequests :
          /\ (Update({req}) /\ last'.code = 200)
                => OnlyFieldsOf(last'.id, req)
          /\ (/\ BatchUpdate({<<BatchUpdateItem(1, req)>>}, {}, MAX_BATCH_SIZE)
              /\ last'.summary.successful = 1)
                => OnlyFieldsOf(1, req)
          /\ BatchUpdate({}, {TemplateFields(req)}, MAX_BATCH_SIZE)
                => \A id \in DOMAIN store : Kept(store[id], store'[id], req)]_vars

\* the id of the stored event a create or batch create call answers with as
\* an idempotent match
MatchedIds(call) ==
    (IF call.op = "create" /\ call.code = 200 THEN {call.id} ELSE {})
    \cup {call.results[k].event_id : k \in
             {j \in 1..Len(call.results) :
                 call.results[j].msg
                    = "Event already exists with this idempotency key"}}

\* C37: when the identity context resolves an owner, the events a create or
\* batch create call stores belong to that identity, and the events it
\* answers with as idempotent matches were looked up under that identity,
\* whatever user_id the request body supplies.
C37_OwnerIsResolvedIdentity ==
    [][(last'.op \in {"create", "batch_create"} /\ last'.caller # None)
          => /\ \A id \in DOMAIN store' \ DOMAIN store :
                   store'[id].user_id = last'.caller
             /\ \A id \in MatchedIds(last') :
                   store[id].user_id = last'.caller]_vars

\* C38: of the items of one batch create call that carry the same non-null
\* (owner, idempotency key), one results in a newly stored event and the
\* others are idempotent matches of it: no two events stored by the call
\* share a non-null pair.
C38_BatchStoresPairOnce ==
    [][last'.op = "batch_create"
          => \A a, b \in DOMAIN store' \ DOMAIN store :
                a # b => ~SamePair(store'[a], store'[b])]_vars

\* the message of an updated event that tells of a redelivery
SaysQueued(msg) == msg = "Event updated and queued for redelivery"

\* C39: the message an update call returns for an updated event says that
\* redelivery was queued if and only if the call put a message for the event
\* on the queue: a single update says so exactly when its send succeeded,
\* and a batch update names as many events queued as it put messages.
C39_MessageTellsQueued ==
    [][/\ (last'.op = "update" /\ last'.code = 200)
             => (SaysQueued(last'.msg) <=> last'.sent = 1)
       /\ last'.op = "batch_update"
             => Cardinality({k \in 1..Len(last'.results) :
                                SaysQueued(last'.results[k].msg)}) = last'.sent]_vars

\* C40: as long as an event stays stored, its event_id, event_type and
\* created_at keep their values from one state to the next, whatever the
\* interleaving of the update, acknowledge and replay requests and of the
\* worker invocations on it.
C40_IdentityFieldsKept ==
    [][\A id \in DOMAIN store \cap DOMAIN store' :
          /\ store'[id].event_id = store[id].event_id
          /\ store'[id].event_type = store[id].event_type
          /\ store'[id].created_at = store[id].created_at]_vars

\* a replay request that read the event at an earlier time has delivered and
\* written it back, while another request on the event is still under way
C40_Witness ==
    /\ last.op = "replay" /\ last.code = 200
    /\ last.id \in DOMAIN store
    /\ store[last.id].status = "replayed"
    /\ store[last.id].created_at < clock
    /\ \E r \in inflight : r.id = last.id
====
